---- MODULE Spec2Model ----
(***************************************************************************)
(* Verification model of the asynchronous job-matching pipeline:           *)
(*   - backend/apify_recommendation_queue.py  (ApifyRecommendationQueue)   *)
(*   - backend/apify_jobs_service.py          (two-tier result cache)      *)
(* Strings whose content the code inspects are sequences of one-character  *)
(* strings; time.time() is an integer number of seconds.                   *)
(***************************************************************************)
EXTENDS Integers, Sequences, FiniteSets, TLC

(***************************************************************************)
(* Bounds of the model                                                     *)
(***************************************************************************)
\* number of job ids uuid4 hands out in one run
MaxJobs == 2
\* the same, in the runs where a single owner submits
MaxOwnerJobs == 3
\* the same, in the runs under fair scheduling
MaxLiveJobs == 3
\* the clock stops advancing beyond this value
MaxTime == 1000
\* the same, in the runs where rejected submissions are retried
MaxRetryJobs == 3
\* the jobs created while serialize_job calls are observed
MaxPollJobs == 2

(***************************************************************************)
(* Program constants (defaults of the environment variables)               *)
(***************************************************************************)
DEFAULT_WORKER_COUNT == 2
MAX_WORKER_COUNT == 6
JOB_TTL_SECONDS == 900
DEFAULT_POLL_INTERVAL_MS == 1500
MAX_ACTIVE_JOBS_PER_USER == 2

\* Python's None for an Optional[float]; None and 0.0 are both falsy
None == 0

Max2(a, b) == IF a >= b THEN a ELSE b
Min2(a, b) == IF a <= b THEN a ELSE b

(***************************************************************************)
(* Character strings                                                       *)
(***************************************************************************)
\* characters matched by the regular expression \s
Whitespace == {" ", "\t"}
\* characters removed by .strip(" ,;")
StripChars == {" ", ",", ";"}

UpperCase ==
  << "A","B","C","D","E","F","G","H","I","J","K","L","M",
     "N","O","P","Q","R","S","T","U","V","W","X","Y","Z" >>
LowerCase ==
  << "a","b","c","d","e","f","g","h","i","j","k","l","m",
     "n","o","p","q","r","s","t","u","v","w","x","y","z" >>

\* str.lower() of one character
LowerChar(c) ==
  IF \E i \in 1..26 : UpperCase[i] = c
  THEN LowerCase[CHOOSE i \in 1..26 : UpperCase[i] = c]
  ELSE c

\* str.lower()
Lower(s) == [i \in 1..Len(s) |-> LowerChar(s[i])]

\* re.sub(r"\s+", " ", s): every run of whitespace becomes one space (the
\* last character of a run is kept, as a space)
CollapseWs(s) ==
  LET kept == SelectSeq([i \in 1..Len(s) |-> i],
                        LAMBDA i : ~(/\ s[i] \in Whitespace
                                     /\ i < Len(s)
                                     /\ s[i + 1] \in Whitespace))
  IN  [j \in 1..Len(kept) |->
         IF s[kept[j]] \in Whitespace THEN " " ELSE s[kept[j]]]

RECURSIVE LStrip(_, _)
LStrip(s, chars) ==
  IF s # <<>> /\ Head(s) \in chars THEN LStrip(Tail(s), chars) ELSE s

RECURSIVE RStrip(_, _)
RStrip(s, chars) ==
  IF s # <<>> /\ s[Len(s)] \in chars
  THEN RStrip(SubSeq(s, 1, Len(s) - 1), chars) ELSE s

\* str.strip(chars)
Strip(s, chars) == RStrip(LStrip(s, chars), chars)

\* Python's "t in s" for strings
Contains(s, t) ==
  \E i \in 1..(Len(s) - Len(t) + 1) : SubSeq(s, i, i + Len(t) - 1) = t

RECURSIVE CountTokens(_, _, _)
\* len([t for t in re.split(r"[\s,]+", s) if t])
CountTokens(s, seps, inTok) ==
  IF s = <<>> THEN 0
  ELSE IF Head(s) \in seps THEN CountTokens(Tail(s), seps, FALSE)
  ELSE (IF inTok THEN 0 ELSE 1) + CountTokens(Tail(s), seps, TRUE)

LOCATION_NOISE_TERMS ==
  { <<"i","m","p","l","e","m","e","n","t","e","d">>,
    <<"f","e","e","d","b","a","c","k">>,
    <<"r","a","t","i","n","g">>,
    <<"m","e","c","h","a","n","i","s","m">>,
    <<"n","o","t","i","f","i","c","a","t","i","o","n">>,
    <<"a","u","t","h","e","n","t","i","c","a","t","i","o","n">>,
    <<"l","a","r","a","v","e","l">>,
    <<"t","y","p","e","s","c","r","i","p","t">>,
    <<"u","n","i","v","e","r","s","i","t","y">>,
    <<"b","a","c","h","e","l","o","r">>,
    <<"b","a","t","c","h">>,
    <<"c","g","p","a">>,
    <<"h","s","c">>,
    <<"s","s","c">>,
    <<"s","k","i","l","l","s">>,
    <<"p","r","o","j","e","c","t">> }

DefaultLocation == <<"I","n","d","i","a">>

\* AIRecommendationService.sanitize_location
sanitize_location(location) ==
  LET cleaned == Strip(CollapseWs(location), StripChars)
      lowered == Lower(cleaned)
  IN  IF cleaned = <<>> THEN DefaultLocation
      ELSE IF Len(cleaned) > 80 THEN DefaultLocation
      ELSE IF Contains(lowered, <<"h","t","t","p",":","/","/">>)
              \/ Contains(lowered, <<"h","t","t","p","s",":","/","/">>)
           THEN DefaultLocation
      ELSE IF \E term \in LOCATION_NOISE_TERMS : Contains(lowered, term)
           THEN DefaultLocation
      ELSE IF CountTokens(lowered, Whitespace \cup {","}, FALSE) > 8
           THEN DefaultLocation
      ELSE cleaned

(***************************************************************************)
(* Inputs of the recommendation queue                                      *)
(***************************************************************************)
\* user ids as the callers pass them: the int 1, the str "1", the int 2
UserIds == {"int:1", "str:1", "int:2"}

\* str(user_id)
Str(u) == CASE u = "int:1" -> "1" [] u = "str:1" -> "1" [] u = "int:2" -> "2"

Locations ==
  { <<"P","u","n","e">>,
    <<" ","P","u","n","e",";">>,
    <<"S","S","C"," ","b","o","a","r","d">>,
    <<"G","o","a">> }

\* sanitize_location on the locations of the model, evaluated once
SanitizedLocation == [l \in Locations |-> sanitize_location(l)]

\* the keyword arguments of enqueue other than user_id
Inputs ==
  [resume_analysis : {"resume"}, use_apify : {TRUE}, top_n : {5},
   location : Locations]

\* _hash_payload: sha256 of the canonical JSON of the normalized inputs,
\* represented by the normalized inputs themselves (sha256 taken injective)
_hash_payload(user_id, inp) ==
  << Str(user_id), inp.use_apify, inp.top_n,
     SanitizedLocation[inp.location], inp.resume_analysis >>

JobIds == 1..Max2(MaxJobs, Max2(MaxOwnerJobs, MaxLiveJobs))
Active == {"queued", "running"}
Terminal == {"succeeded", "failed", "cancelled"}
Statuses == Active \cup Terminal

(***************************************************************************)
(* Inputs of fetch_jobs_from_apify                                         *)
(***************************************************************************)
APIFY_CACHE_FRESH_SECONDS == 600
APIFY_CACHE_FALLBACK_SECONDS == 86400

\* the terms _sanitize_location of apify_jobs_service.py rejects
SERVICE_NOISE_TERMS ==
  { <<"c","g","p","a">>, <<"b","a","t","c","h">>, <<"b","o","a","r","d">>,
    <<"u","n","i","v","e","r","s","i","t","y">>, <<"h","s","c">>,
    <<"s","s","c">>, <<"i","m","p","l","e","m","e","n","t","e","d">>,
    <<"l","a","r","a","v","e","l">> }

\* _sanitize_location of apify_jobs_service.py
_sanitize_location(location) ==
  LET cleaned == Strip(CollapseWs(location), StripChars)
      lowered == Lower(cleaned)
  IN  IF cleaned = <<>> THEN DefaultLocation
      ELSE IF Len(cleaned) > 80 THEN DefaultLocation
      ELSE IF \E term \in SERVICE_NOISE_TERMS : Contains(lowered, term)
           THEN DefaultLocation
      ELSE IF Contains(lowered, <<"h","t","t","p",":","/","/">>)
              \/ Contains(lowered, <<"h","t","t","p","s",":","/","/">>)
           THEN DefaultLocation
      ELSE IF CountTokens(cleaned, Whitespace \cup {","}, FALSE) > 8
           THEN DefaultLocation
      ELSE cleaned

RECURSIVE NormalizeKeywords(_, _)
\* the loop of _normalize_keywords_for_cache over the keywords left, with
\* the list cleaned so far (seen is the set of its elements)
NormalizeKeywords(keywords, cleaned) ==
  IF keywords = <<>> THEN cleaned
  ELSE LET token == Lower(Strip(CollapseWs(Head(keywords)), Whitespace))
       IN  IF token = <<>> \/ \E i \in 1..Len(cleaned) : cleaned[i] = token
           THEN NormalizeKeywords(Tail(keywords), cleaned)
           ELSE NormalizeKeywords(Tail(keywords), Append(cleaned, token))

\* _normalize_keywords_for_cache
_normalize_keywords_for_cache(keywords) == NormalizeKeywords(keywords, <<>>)

\* _build_cache_key that takes the first 16 keywords before normalizing
_build_cache_key_CapFirst(keywords, location) ==
  << Lower(_sanitize_location(location)),
     _normalize_keywords_for_cache(
        SubSeq(keywords, 1, Min2(16, Len(keywords)))) >>

\* _build_cache_key: the JSON text of {"keywords": ..., "location": ...},
\* represented by the pair of the two values
_build_cache_key(keywords, location) ==
  << Lower(_sanitize_location(location)),
     SubSeq(_normalize_keywords_for_cache(keywords), 1,
            Min2(16, Len(_normalize_keywords_for_cache(keywords)))) >>

\* the empty string passed as cache_key
NoKey == <<>>

\* the queries of the model: the first two differ in case, whitespace and a
\* repeated keyword only
Queries ==
  { [keywords |-> << <<"P","y">> >>, location |-> <<"G","o","a">>],
    [keywords |-> << <<" ","p","y"," ">>, <<"P","Y">> >>,
     location |-> <<"g","o","a",";">>],
    [keywords |-> << <<"G","o">> >>, location |-> <<"G","o","a">>] }

\* the cache key fetch_jobs_from_apify computes for a query (lines 488-491),
\* evaluated once
CacheKeyOf ==
  [q \in Queries |-> _build_cache_key(q.keywords, _sanitize_location(q.location))]

\* the deduplicated lists a live aggregation can produce; empty when every
\* adapter failed or found nothing
LiveResults == {<<>>, <<"listing-a">>, <<"listing-b">>}

\* the instants at which the model looks at the cache
CacheTimes ==
  { 1, 1 + APIFY_CACHE_FRESH_SECONDS, 2 + APIFY_CACHE_FRESH_SECONDS,
    2 + APIFY_CACHE_FALLBACK_SECONDS }

\* number of fetch_jobs_from_apify calls that run at the same time
MaxCalls == 2

\* str(exc) of the exceptions get_recommendations can raise; an exception
\* constructed without arguments, such as TimeoutError(), has str(exc) = ""
ExcMessages == {"", "boom"}
\* lists get_recommendations can return
RecLists == {<<>>, <<"match">>}

(***************************************************************************)
(* URLs of listings: apify_client.py (adapters) and apify_jobs_service.py  *)
(***************************************************************************)
\* the string literals of the URL functions
QuestionAmp ==
  <<"?", "a", "m", "p", ";">>
AmpReference ==
  <<"&", "a", "m", "p", ";">>
AmpFragment ==
  <<"a", "m", "p", ";">>
HttpPrefix ==
  <<"h", "t", "t", "p", ":", "/", "/">>
HttpsPrefix ==
  <<"h", "t", "t", "p", "s", ":", "/", "/">>
HttpsColon ==
  <<"h", "t", "t", "p", "s", ":">>
WwwPrefix ==
  <<"w", "w", "w", ".">>
DefaultTitleSlug ==
  <<"s", "o", "f", "t", "w", "a", "r", "e", "-", "e", "n", "g", "i", "n",
    "e", "e", "r">>
DefaultLocationSlug ==
  <<"i", "n", "d", "i", "a">>
LinkedinName ==
  <<"l", "i", "n", "k", "e", "d", "i", "n">>
NaukriName ==
  <<"n", "a", "u", "k", "r", "i">>
InternshalaName ==
  <<"i", "n", "t", "e", "r", "n", "s", "h", "a", "l", "a">>
LinkedinSearchUrl ==
  <<"h", "t", "t", "p", "s", ":", "/", "/", "w", "w", "w", ".", "l", "i",
    "n", "k", "e", "d", "i", "n", ".", "c", "o", "m", "/", "j", "o", "b",
    "s", "/", "s", "e", "a", "r", "c", "h", "/", "?", "k", "e", "y", "w",
    "o", "r", "d", "s", "=">>
LocationParam ==
  <<"&", "l", "o", "c", "a", "t", "i", "o", "n", "=">>
NaukriSearchUrl ==
  <<"h", "t", "t", "p", "s", ":", "/", "/", "w", "w", "w", ".", "n", "a",
    "u", "k", "r", "i", ".", "c", "o", "m", "/">>
JobsIn ==
  <<"-", "j", "o", "b", "s", "-", "i", "n", "-">>
InternshalaSearchUrl ==
  <<"h", "t", "t", "p", "s", ":", "/", "/", "i", "n", "t", "e", "r", "n",
    "s", "h", "a", "l", "a", ".", "c", "o", "m", "/", "i", "n", "t", "e",
    "r", "n", "s", "h", "i", "p", "s", "/", "k", "e", "y", "w", "o", "r",
    "d", "s", "-">>
GoogleSearchUrl ==
  <<"h", "t", "t", "p", "s", ":", "/", "/", "w", "w", "w", ".", "g", "o",
    "o", "g", "l", "e", ".", "c", "o", "m", "/", "s", "e", "a", "r", "c",
    "h", "?", "q", "=">>
PlusJobs ==
  <<"+", "j", "o", "b", "s", "+">>
LinkedinSite ==
  <<"h", "t", "t", "p", "s", ":", "/", "/", "w", "w", "w", ".", "l", "i",
    "n", "k", "e", "d", "i", "n", ".", "c", "o", "m">>
NaukriSite ==
  <<"h", "t", "t", "p", "s", ":", "/", "/", "w", "w", "w", ".", "n", "a",
    "u", "k", "r", "i", ".", "c", "o", "m">>
InternshalaSite ==
  <<"h", "t", "t", "p", "s", ":", "/", "/", "i", "n", "t", "e", "r", "n",
    "s", "h", "a", "l", "a", ".", "c", "o", "m">>

\* s.startswith(prefix)
StartsWith(s, prefix) ==
  Len(s) >= Len(prefix) /\ SubSeq(s, 1, Len(prefix)) = prefix

RECURSIVE ReplaceAll(_, _, _)
\* s.replace(old, new), old not empty
ReplaceAll(s, old, new) ==
  IF Len(s) < Len(old) THEN s
  ELSE IF SubSeq(s, 1, Len(old)) = old
  THEN new \o ReplaceAll(SubSeq(s, Len(old) + 1, Len(s)), old, new)
  ELSE <<Head(s)>> \o ReplaceAll(Tail(s), old, new)

\* the three replacements both URL normalizers apply to "amp;" fragments
ReplaceAmp(s) ==
  ReplaceAll(ReplaceAll(ReplaceAll(s, QuestionAmp, <<"?">>), AmpReference, <<"&">>),
             AmpFragment, <<>>)

\* html.unescape, for the one character reference the modelled inputs
\* contain
html_unescape(s) == ReplaceAll(s, AmpReference, <<"&">>)

\* a value of an item or of a job: no value (None, or the key is missing),
\* a character string, or a dictionary with the key "url"
NoValue == [t |-> "none"]
StrValue(s) == [t |-> "str", s |-> s]
DictValue(s) == [t |-> "dict", url |-> s]

\* the tail of both normalizers: an absolute http(s) URL, a scheme-relative
\* one, one starting with www., or nothing
AbsoluteUrl(url) ==
  IF url = <<>> THEN <<>>
  ELSE IF StartsWith(url, HttpPrefix) \/ StartsWith(url, HttpsPrefix) THEN url
  ELSE IF StartsWith(url, <<"/", "/">>) THEN HttpsColon \o url
  ELSE IF StartsWith(url, WwwPrefix) THEN HttpsPrefix \o url
  ELSE <<>>

\* ApifyJobScraper._normalize_http_url of a character string
Scraper_normalize_text(s) ==
  AbsoluteUrl(ReplaceAmp(html_unescape(Strip(s, Whitespace))))

\* ApifyJobScraper._normalize_http_url
_normalize_http_url(value) ==
  IF value.t = "none" THEN <<>>
  ELSE IF value.t = "dict" THEN Scraper_normalize_text(value.url)
  ELSE Scraper_normalize_text(value.s)

\* _normalize_external_url of a character string
normalize_external_text(s) == AbsoluteUrl(ReplaceAmp(Strip(s, Whitespace)))

\* _normalize_external_url of apify_jobs_service.py
_normalize_external_url(value) ==
  IF value.t = "none" THEN <<>>
  ELSE IF value.t = "dict" THEN normalize_external_text(value.url)
  ELSE normalize_external_text(value.s)

Digits == {"0", "1", "2", "3", "4", "5", "6", "7", "8", "9"}
LowerLetters == {LowerCase[i] : i \in 1..26}
UpperLetters == {UpperCase[i] : i \in 1..26}

\* the percent escapes of the characters of the modelled inputs that
\* quote_plus does not leave alone
PercentEscape(c) ==
  CASE c = "/" -> <<"%", "2", "F">>
    [] c = ":" -> <<"%", "3", "A">>
    [] c = "?" -> <<"%", "3", "F">>
    [] c = "&" -> <<"%", "2", "6">>
    [] c = "=" -> <<"%", "3", "D">>
    [] c = "," -> <<"%", "2", "C">>
    [] c = ";" -> <<"%", "3", "B">>
    [] OTHER -> <<"%", "0", "0">>

RECURSIVE quote_plus(_)
\* urllib.parse.quote_plus
quote_plus(s) ==
  IF s = <<>> THEN <<>>
  ELSE (IF Head(s) = " " THEN <<"+">>
        ELSE IF Head(s) \in LowerLetters \cup UpperLetters \cup Digits
                          \cup {"_", ".", "-", "~"}
        THEN <<Head(s)>>
        ELSE PercentEscape(Head(s))) \o quote_plus(Tail(s))

RECURSIVE DashRuns(_, _)
\* re.sub(r"[^a-z0-9]+", "-", s): inRun tells that the previous character
\* was replaced already
DashRuns(s, inRun) ==
  IF s = <<>> THEN <<>>
  ELSE IF Head(s) \in LowerLetters \cup Digits
  THEN <<Head(s)>> \o DashRuns(Tail(s), FALSE)
  ELSE IF inRun THEN DashRuns(Tail(s), TRUE)
  ELSE <<"-">> \o DashRuns(Tail(s), TRUE)

\* re.sub(r"[^a-z0-9]+", "-", text.lower()).strip("-") or default
Slug(text, default) ==
  IF Strip(DashRuns(Lower(text), FALSE), {"-"}) = <<>> THEN default
  ELSE Strip(DashRuns(Lower(text), FALSE), {"-"})

DefaultTitle == <<"s", "o", "f", "t", "w", "a", "r", "e", " ", "e", "n", "g", "i", "n", "e", "e", "r">>

\* the URL both _build_platform_search_url functions build from a title and
\* a location that are already made safe
PlatformSearchUrl(platform_name, safe_title, safe_location) ==
  IF platform_name = LinkedinName
  THEN LinkedinSearchUrl \o quote_plus(safe_title) \o LocationParam \o quote_plus(safe_location)
  ELSE IF platform_name = NaukriName
  THEN NaukriSearchUrl \o Slug(safe_title, DefaultTitleSlug) \o JobsIn
         \o Slug(safe_location, DefaultLocationSlug)
  ELSE IF platform_name = InternshalaName
  THEN InternshalaSearchUrl \o quote_plus(safe_title) \o <<"/">>
  ELSE GoogleSearchUrl \o quote_plus(safe_title) \o PlusJobs \o quote_plus(safe_location)

\* ApifyJobScraper._build_platform_search_url
Scraper_build_platform_search_url(platform, title, location) ==
  PlatformSearchUrl(
    Lower(Strip(platform, Whitespace)),
    Strip(IF title = <<>> THEN DefaultTitle ELSE title, Whitespace),
    Strip(IF location = <<>> THEN DefaultLocation ELSE location, Whitespace))

\* _build_platform_search_url of apify_jobs_service.py
_build_platform_search_url(platform, title, location) ==
  PlatformSearchUrl(
    platform,
    Strip(IF title = <<>> THEN DefaultTitle ELSE title, Whitespace),
    _sanitize_location(location))

\* the site a platform-relative link of an adapter is resolved against
PlatformSite(platform) ==
  IF platform = LinkedinName THEN LinkedinSite
  ELSE IF platform = NaukriName THEN NaukriSite
  ELSE InternshalaSite

(***************************************************************************)
(* State of ApifyRecommendationQueue                                       *)
(***************************************************************************)
VARIABLES
  started,      \* self._started
  jobs,         \* self._jobs: job_id -> RecommendationJob
  queue,        \* self._queue: FIFO of job ids
  putPending,   \* ids of jobs whose enqueue call is between line 114 and 116
  wk,           \* the workers that hold a job id: position in _process_job
                \* and the local job_id (worker threads are interchangeable;
                \* the others block in self._queue.get())
  nextId,       \* the next id uuid4 hands out
  now           \* time.time()

qvars == <<started, jobs, queue, putPending, wk, nextId, now>>

(***************************************************************************)
(* State of the result cache of apify_jobs_service.py                      *)
(***************************************************************************)
VARIABLES
  cacheFile,    \* instance/apify_jobs_cache.json
  calls         \* the fetch_jobs_from_apify calls in progress: position and
                \* locals, and what each call has done so far

cvars == <<cacheFile, calls>>
\* the state of the queue without the clock
queueState == <<started, jobs, queue, putPending, wk, nextId>>

(***************************************************************************)
(* State of ApifyJobScraper.search_all_platforms                           *)
(***************************************************************************)
VARIABLES
  agg           \* one call of search_all_platforms: its position, the
                \* futures of the three adapters and its local all_jobs

avars == <<agg>>

(***************************************************************************)
(* State of the path of the listings: adapter items, adapter listings,     *)
(* mapped listings, merged listings                                        *)
(***************************************************************************)
VARIABLES
  pipe          \* the items the actors delivered and what the adapters and
                \* fetch_jobs_from_apify have made of them so far

pvars == <<pipe>>

(***************************************************************************)
(* State of ApifyJobScraper._call_actor_with_fallback and of the adapter   *)
(* that calls it                                                           *)
(***************************************************************************)
VARIABLES
  rot            \* one call of _call_actor_with_fallback, and the adapter
                 \* that made it
rvars == <<rot>>

(***************************************************************************)
(* The arguments and the result of _build_cache_key                        *)
(***************************************************************************)
VARIABLES
  ck             \* a query in its present form, its cache key, and the key
                 \* of its first form
kvars == <<ck>>

(***************************************************************************)
(* State of AIRecommendationService.match_jobs                             *)
(***************************************************************************)
VARIABLES
  mt             \* one call of match_jobs: its arguments, scored_jobs and
                 \* the list it returns
mvars == <<mt>>

(***************************************************************************)
(* State of a repeated URL normalization                                   *)
(***************************************************************************)
VARIABLES
  nz             \* a value, what a normalizer made of it, and what it made of that
nvars == <<nz>>

(***************************************************************************)
(* State of a serialize_job call                                           *)
(***************************************************************************)
VARIABLES
  sz             \* the serialize_job call in progress: position, job and payload
svars == <<sz>>

(***************************************************************************)
(* State of a _prepare_search_keywords call                                *)
(***************************************************************************)
VARIABLES
  prep           \* the list given, its forms and what the function returned for each
wvars == <<prep>>

(***************************************************************************)
(* The job cache of the standalone app                                     *)
(***************************************************************************)
VARIABLES
  jc             \* _JOB_CACHE, the clock, and the last call with what it returned
jvars == <<jc>>

\* what the operations of each part leave alone
outsideQueue == <<cvars, avars, pvars, rvars, kvars, mvars, nvars, svars, wvars, jvars>>
outsideCache == <<queueState, avars, pvars, rvars, kvars, mvars, nvars, svars, wvars, jvars>>
outsideAggregator == <<qvars, cvars, pvars, rvars, kvars, mvars, nvars, svars, wvars, jvars>>
outsideListings == <<qvars, cvars, avars, rvars, kvars, mvars, nvars, svars, wvars, jvars>>
outsideRotation == <<qvars, cvars, avars, pvars, kvars, mvars, nvars, svars, wvars, jvars>>
outsideKeys == <<qvars, cvars, avars, pvars, rvars, mvars, nvars, svars, wvars, jvars>>
outsideMatch == <<qvars, cvars, avars, pvars, rvars, kvars, nvars, svars, wvars, jvars>>
outsideNormalizer == <<qvars, cvars, avars, pvars, rvars, kvars, mvars, svars, wvars, jvars>>
outsideSerializer == <<qvars, cvars, avars, pvars, rvars, kvars, mvars, nvars, wvars, jvars>>
outsideKeywords == <<qvars, cvars, avars, pvars, rvars, kvars, mvars, nvars, svars, jvars>>
outsideJobCache == <<qvars, cvars, avars, pvars, rvars, kvars, mvars, nvars, svars, wvars>>
vars == <<qvars, cvars, avars, pvars, rvars, kvars, mvars, nvars, svars, wvars, jvars>>

\* self._worker_count
bounded_worker_count == Max2(1, Min2(DEFAULT_WORKER_COUNT, MAX_WORKER_COUNT))

\* RecommendationJob as constructed by enqueue
RecommendationJob(user_id, payload_hash, inp, t) ==
  [ user_id         |-> user_id,
    payload_hash    |-> payload_hash,
    resume_analysis |-> inp.resume_analysis,
    use_apify       |-> inp.use_apify,
    top_n           |-> inp.top_n,
    location        |-> SanitizedLocation[inp.location],
    status          |-> "queued",
    created_at      |-> t,
    started_at      |-> None,
    completed_at    |-> None,
    error           |-> "",
    recommendations |-> <<>> ]

\* a worker inside _process_job
Worker(pc, job_id) == [pc |-> pc, job_id |-> job_id]

\* the amounts by which the clock advances between two steps
TickSteps == {JOB_TTL_SECONDS, JOB_TTL_SECONDS + 1}

QueueInit ==
  /\ started = FALSE
  /\ jobs = <<>>
  /\ queue = <<>>
  /\ putPending = {}
  /\ wk = {}
  /\ nextId = 1
  /\ now = 1

\* ExpiredJobs without the test that skips queued and running jobs
ExpiredJobs_ActiveToo(js, t) ==
  { id \in DOMAIN js :
      LET terminal_at == IF js[id].completed_at # None
                         THEN js[id].completed_at ELSE js[id].created_at
      IN  t - terminal_at > JOB_TTL_SECONDS }

\* the ids _cleanup_expired_locked collects in to_delete
ExpiredJobs(js, t) ==
  { id \in DOMAIN js :
      /\ js[id].status \notin {"queued", "running"}
      /\ LET terminal_at == IF js[id].completed_at # None
                            THEN js[id].completed_at ELSE js[id].created_at
         IN  t - terminal_at > JOB_TTL_SECONDS }

\* _cleanup_expired_locked: the jobs map after the sweep
_cleanup_expired_locked(js, t) ==
  [id \in DOMAIN js \ ExpiredJobs(js, t) |-> js[id]]

\* DuplicateActiveJobs comparing the user ids without str()
DuplicateActiveJobs_RawUserId(js, user_id, payload_hash) ==
  { id \in DOMAIN js :
      /\ js[id].user_id = user_id
      /\ js[id].status \in {"queued", "running"}
      /\ js[id].payload_hash = payload_hash }

\* DuplicateActiveJobs that takes only queued jobs for active
DuplicateActiveJobs_QueuedOnly(js, user_id, payload_hash) ==
  { id \in DOMAIN js :
      /\ Str(js[id].user_id) = Str(user_id)
      /\ js[id].status = "queued"
      /\ js[id].payload_hash = payload_hash }

\* the jobs _find_duplicate_active_job_locked accepts
DuplicateActiveJobs(js, user_id, payload_hash) ==
  { id \in DOMAIN js :
      /\ Str(js[id].user_id) = Str(user_id)
      /\ js[id].status \in {"queued", "running"}
      /\ js[id].payload_hash = payload_hash }

\* _find_duplicate_active_job_locked: the first match in insertion order
\* (ids are handed out in insertion order), 0 for None
_find_duplicate_active_job_locked(js, user_id, payload_hash) ==
  LET dups == DuplicateActiveJobs(js, user_id, payload_hash)
  IN  IF dups = {} THEN 0
      ELSE CHOOSE id \in dups : \A other \in dups : id <= other

\* _active_jobs_for_user_locked that counts one job less
_active_jobs_for_user_locked_OffByOne(js, user_id) ==
  Max2(0, Cardinality({ id \in DOMAIN js :
                          /\ Str(js[id].user_id) = Str(user_id)
                          /\ js[id].status \in {"queued", "running"} }) - 1)

\* _active_jobs_for_user_locked
_active_jobs_for_user_locked(js, user_id) ==
  Cardinality({ id \in DOMAIN js :
                  /\ Str(js[id].user_id) = Str(user_id)
                  /\ js[id].status \in {"queued", "running"} })

\* the enqueue that tests the capacity before it looks for a duplicate
enqueue_swept_CapacityFirst(swept, t, new_id, user_id, inp, payload_hash) ==
  IF _active_jobs_for_user_locked(swept, user_id) >= MAX_ACTIVE_JOBS_PER_USER
  THEN [jobs |-> swept, result |-> "RuntimeError", job_id |-> 0]
  ELSE IF _find_duplicate_active_job_locked(swept, user_id, payload_hash) # 0
  THEN [jobs |-> swept, result |-> "duplicate",
        job_id |-> _find_duplicate_active_job_locked(swept, user_id, payload_hash)]
  ELSE [jobs |-> [id \in DOMAIN swept \cup {new_id} |->
                    IF id = new_id
                    THEN RecommendationJob(user_id, payload_hash, inp, t)
                    ELSE swept[id]],
        result |-> "created", job_id |-> new_id]

\* enqueue, lines 95-114, on the swept jobs map: the duplicate check, the
\* enqueue that stores the new job before it tests the capacity
enqueue_swept_StoresRejected(swept, t, new_id, user_id, inp, payload_hash) ==
  IF _find_duplicate_active_job_locked(swept, user_id, payload_hash) # 0
  THEN [jobs |-> swept, result |-> "duplicate",
        job_id |-> _find_duplicate_active_job_locked(swept, user_id, payload_hash)]
  ELSE [jobs |-> [id \in DOMAIN swept \cup {new_id} |->
                    IF id = new_id
                    THEN RecommendationJob(user_id, payload_hash, inp, t)
                    ELSE swept[id]],
        result |-> IF _active_jobs_for_user_locked(swept, user_id)
                        >= MAX_ACTIVE_JOBS_PER_USER
                   THEN "RuntimeError" ELSE "created",
        job_id |-> new_id]

\* capacity check and the creation of the job. The result is the jobs map,
\* what the call does next ("duplicate": return the duplicate with
\* created=False; "RuntimeError": raise; "created": go on to put the new
\* job's id on the work queue) and the job concerned.
enqueue_swept(swept, t, new_id, user_id, inp, payload_hash) ==
  IF _find_duplicate_active_job_locked(swept, user_id, payload_hash) # 0
  THEN [jobs |-> swept, result |-> "duplicate",
        job_id |-> _find_duplicate_active_job_locked(swept, user_id, payload_hash)]
  ELSE IF _active_jobs_for_user_locked(swept, user_id) >= MAX_ACTIVE_JOBS_PER_USER
  THEN [jobs |-> swept, result |-> "RuntimeError", job_id |-> 0]
  ELSE [jobs |-> [id \in DOMAIN swept \cup {new_id} |->
                    IF id = new_id
                    THEN RecommendationJob(user_id, payload_hash, inp, t)
                    ELSE swept[id]],
        result |-> "created", job_id |-> new_id]

\* enqueue, lines 84-114: _hash_payload, then under _jobs_lock the sweep and
\* the checks
enqueue_locked(js, t, new_id, user_id, inp) ==
  enqueue_swept(_cleanup_expired_locked(js, t), t, new_id, user_id, inp,
                _hash_payload(user_id, inp))

\* the state after the locked section of enqueue with the result out
enqueue_result(out) ==
  /\ started' = TRUE
  /\ jobs' = out.jobs
  /\ putPending' = IF out.result = "created"
                   THEN putPending \cup {out.job_id} ELSE putPending
  /\ nextId' = IF out.result = "created" THEN nextId + 1 ELSE nextId
  /\ UNCHANGED <<queue, wk, now, outsideQueue>>

\* enqueue, lines 83-114: start(), then the section under _jobs_lock
enqueue(user_id, inp) ==
  enqueue_result(enqueue_locked(jobs, now, nextId, user_id, inp))

\* the put that is carried out, and carried out again later
enqueue_put_Again(job_id) ==
  /\ job_id \in putPending
  /\ queue' = Append(queue, job_id)
  /\ putPending' = IF \E i \in 1..Len(queue) : queue[i] = job_id
                   THEN putPending \ {job_id} ELSE putPending
  /\ UNCHANGED <<started, jobs, wk, nextId, now, outsideQueue>>

\* enqueue, lines 116-117: self._queue.put(job.job_id); return job, True
enqueue_put(job_id) ==
  /\ job_id \in putPending
  /\ queue' = Append(queue, job_id)
  /\ putPending' = putPending \ {job_id}
  /\ UNCHANGED <<started, jobs, wk, nextId, now, outsideQueue>>

\* get_job without the comparison of the owners
get_job_locked_NoOwnerCheck(js, t, job_id, user_id) ==
  LET swept == _cleanup_expired_locked(js, t)
  IN  IF job_id \notin DOMAIN swept
      THEN [jobs |-> swept, result |-> 0]
      ELSE [jobs |-> swept, result |-> job_id]

\* get_job that does not run the TTL sweep
get_job_locked_NoSweep(js, t, job_id, user_id) ==
  IF job_id \notin DOMAIN js \/ Str(js[job_id].user_id) # Str(user_id)
  THEN [jobs |-> js, result |-> 0]
  ELSE [jobs |-> js, result |-> job_id]

\* get_job: the jobs map it leaves and the job it returns (0 for None)
get_job_locked(js, t, job_id, user_id) ==
  LET swept == _cleanup_expired_locked(js, t)
  IN  IF job_id \notin DOMAIN swept \/ Str(swept[job_id].user_id) # Str(user_id)
      THEN [jobs |-> swept, result |-> 0]
      ELSE [jobs |-> swept, result |-> job_id]

get_job(job_id, user_id) ==
  /\ jobs' = get_job_locked(jobs, now, job_id, user_id).jobs
  /\ UNCHANGED <<started, queue, putPending, wk, nextId, now, outsideQueue>>

\* cancel_job without the test of the status
cancel_job_locked_AnyStatus(js, t, job_id, user_id) ==
  IF job_id \notin DOMAIN js \/ Str(js[job_id].user_id) # Str(user_id)
  THEN [jobs |-> js, result |-> FALSE]
  ELSE [jobs |-> [js EXCEPT ![job_id].status = "cancelled",
                            ![job_id].completed_at = t,
                            ![job_id].error = "Cancelled by user"],
        result |-> TRUE]

\* cancel_job that cancels a running job too
cancel_job_locked_Running(js, t, job_id, user_id) ==
  IF job_id \notin DOMAIN js \/ Str(js[job_id].user_id) # Str(user_id)
  THEN [jobs |-> js, result |-> FALSE]
  ELSE IF js[job_id].status \notin {"queued", "running"}
  THEN [jobs |-> js, result |-> FALSE]
  ELSE [jobs |-> [js EXCEPT ![job_id].status = "cancelled",
                            ![job_id].completed_at = t,
                            ![job_id].error = "Cancelled by user"],
        result |-> TRUE]

\* cancel_job: the jobs map it leaves and the bool it returns
cancel_job_locked(js, t, job_id, user_id) ==
  IF job_id \notin DOMAIN js \/ Str(js[job_id].user_id) # Str(user_id)
  THEN [jobs |-> js, result |-> FALSE]
  ELSE IF js[job_id].status # "queued"
  THEN [jobs |-> js, result |-> FALSE]
  ELSE [jobs |-> [js EXCEPT ![job_id].status = "cancelled",
                            ![job_id].completed_at = t,
                            ![job_id].error = "Cancelled by user"],
        result |-> TRUE]

cancel_job(job_id, user_id) ==
  /\ jobs' = cancel_job_locked(jobs, now, job_id, user_id).jobs
  /\ UNCHANGED <<started, queue, putPending, wk, nextId, now, outsideQueue>>

\* _worker_loop, line 161: job_id = self._queue.get(), by a worker that
\* start() has created and that holds no job
worker_get ==
  /\ started
  /\ Cardinality(wk) < bounded_worker_count
  /\ queue # <<>>
  /\ wk' = wk \cup {Worker("process", Head(queue))}
  /\ queue' = Tail(queue)
  /\ UNCHANGED <<started, jobs, putPending, nextId, now, outsideQueue>>

\* _process_job without the test of the status
process_job_take_NoStatusCheck(js, t, job_id) ==
  IF job_id \notin DOMAIN js
  THEN [jobs |-> js, taken |-> FALSE]
  ELSE [jobs |-> [js EXCEPT ![job_id].status = "running",
                            ![job_id].started_at = t],
        taken |-> TRUE]

\* _process_job, lines 168-175: the first section under _jobs_lock
process_job_take(js, t, job_id) ==
  IF job_id \notin DOMAIN js
  THEN [jobs |-> js, taken |-> FALSE]
  ELSE IF js[job_id].status # "queued"
  THEN [jobs |-> js, taken |-> FALSE]
  ELSE [jobs |-> [js EXCEPT ![job_id].status = "running",
                            ![job_id].started_at = t],
        taken |-> TRUE]

\* _process_job, lines 168-175; an early return goes through task_done()
\* back to the top of _worker_loop
process_job_begin(job_id) ==
  /\ Worker("process", job_id) \in wk
  /\ jobs' = process_job_take(jobs, now, job_id).jobs
  /\ wk' = IF process_job_take(jobs, now, job_id).taken
           THEN (wk \ {Worker("process", job_id)}) \cup {Worker("call", job_id)}
           ELSE wk \ {Worker("process", job_id)}
  /\ UNCHANGED <<started, queue, putPending, nextId, now, outsideQueue>>

\* the section that leaves completed_at of a failed job unset
process_job_store_FailedUnstamped(js, t, job_id, error_text, recommendations) ==
  IF job_id \notin DOMAIN js
  THEN js
  ELSE IF js[job_id].status = "cancelled"
  THEN [js EXCEPT ![job_id].completed_at = t]
  ELSE IF error_text # ""
  THEN [js EXCEPT ![job_id].status = "failed",
                  ![job_id].error = error_text]
  ELSE [js EXCEPT ![job_id].status = "succeeded",
                  ![job_id].recommendations = recommendations,
                  ![job_id].completed_at = t]

\* _process_job, lines 196-210: the second section under _jobs_lock, given
\* the locals error_text and recommendations
process_job_store(js, t, job_id, error_text, recommendations) ==
  IF job_id \notin DOMAIN js
  THEN js
  ELSE IF js[job_id].status = "cancelled"
  THEN [js EXCEPT ![job_id].completed_at = t]
  ELSE IF error_text # ""
  THEN [js EXCEPT ![job_id].status = "failed",
                  ![job_id].error = error_text,
                  ![job_id].completed_at = t]
  ELSE [js EXCEPT ![job_id].status = "succeeded",
                  ![job_id].recommendations = recommendations,
                  ![job_id].completed_at = t]

\* _process_job, lines 177-210, get_recommendations returns recs: the locals
\* are recommendations = recs and error_text = ""; then task_done()
process_job_returns(job_id, recs) ==
  /\ Worker("call", job_id) \in wk
  /\ jobs' = process_job_store(jobs, now, job_id, "", recs)
  /\ wk' = wk \ {Worker("call", job_id)}
  /\ UNCHANGED <<started, queue, putPending, nextId, now, outsideQueue>>

\* process_job_raises where the exception leaves _process_job and ends the
\* worker thread
process_job_raises_WorkerDies(job_id, msg) ==
  /\ Worker("call", job_id) \in wk
  /\ jobs' = process_job_store(jobs, now, job_id, msg, <<>>)
  /\ wk' = (wk \ {Worker("call", job_id)}) \cup {Worker("dead", job_id)}
  /\ UNCHANGED <<started, queue, putPending, nextId, now, outsideQueue>>

\* _process_job, lines 177-210, get_recommendations raises an Exception exc
\* with str(exc) = msg: the locals are recommendations = [] and
\* error_text = msg; then task_done()
process_job_raises(job_id, msg) ==
  /\ Worker("call", job_id) \in wk
  /\ jobs' = process_job_store(jobs, now, job_id, msg, <<>>)
  /\ wk' = wk \ {Worker("call", job_id)}
  /\ UNCHANGED <<started, queue, putPending, nextId, now, outsideQueue>>

\* a worker inside the second section under _jobs_lock, lines 196-210, with
\* its locals: pc names the last field it has written
Storing(pc, job_id, error_text, recommendations) ==
  [pc |-> pc, job_id |-> job_id, error_text |-> error_text,
   recommendations |-> recommendations]

\* a worker holds _jobs_lock between two writes of lines 203-210
StoreLockHeld == \E w \in wk : w.pc \in {"status", "result"}

\* _process_job, lines 196-208, one write at a time: the lock is taken, the
\* job is looked up and tested, and current.status is written (line 204 or
\* 208); the locals are those get_recommendations left
process_job_store_status(job_id, error_text, recommendations) ==
  /\ Worker("call", job_id) \in wk
  /\ ~StoreLockHeld
  /\ IF job_id \notin DOMAIN jobs
     THEN /\ jobs' = jobs
          /\ wk' = wk \ {Worker("call", job_id)}
     ELSE IF jobs[job_id].status = "cancelled"
     THEN /\ jobs' = [jobs EXCEPT ![job_id].completed_at = now]
          /\ wk' = wk \ {Worker("call", job_id)}
     ELSE /\ jobs' = [jobs EXCEPT ![job_id].status =
                        IF error_text # "" THEN "failed" ELSE "succeeded"]
          /\ wk' = (wk \ {Worker("call", job_id)})
                     \cup {Storing("status", job_id, error_text,
                                   recommendations)}
  /\ UNCHANGED <<started, queue, putPending, nextId, now, outsideQueue>>

\* _process_job, line 205 or 209: current.error = error_text, or
\* current.recommendations = recommendations
process_job_store_result(job_id) ==
  /\ \E w \in wk :
       /\ w.pc = "status" /\ w.job_id = job_id
       /\ jobs' = IF w.error_text # ""
                  THEN [jobs EXCEPT ![job_id].error = w.error_text]
                  ELSE [jobs EXCEPT ![job_id].recommendations =
                                       w.recommendations]
       /\ wk' = (wk \ {w}) \cup {[w EXCEPT !.pc = "result"]}
  /\ UNCHANGED <<started, queue, putPending, nextId, now, outsideQueue>>

\* _process_job, line 206 or 210: current.completed_at = time.time(); the
\* lock is released and task_done() follows
process_job_store_completed(job_id) ==
  /\ \E w \in wk :
       /\ w.pc = "result" /\ w.job_id = job_id
       /\ jobs' = [jobs EXCEPT ![job_id].completed_at = now]
       /\ wk' = wk \ {w}
  /\ UNCHANGED <<started, queue, putPending, nextId, now, outsideQueue>>

\* time passes
Tick(steps) ==
  /\ \E d \in steps : now + d <= MaxTime /\ now' = now + d
  /\ UNCHANGED <<started, jobs, queue, putPending, wk, nextId, outsideQueue>>

(***************************************************************************)
(* AIRecommendationService._prepare_search_keywords                        *)
(***************************************************************************)
\* AIRecommendationService._GENERIC_KEYWORD_STOPWORDS
_GENERIC_KEYWORD_STOPWORDS ==
  { <<"j", "o", "b">>,
    <<"j", "o", "b", "s">>,
    <<"r", "o", "l", "e">>,
    <<"r", "o", "l", "e", "s">>,
    <<"f", "r", "e", "s", "h", "e", "r">>,
    <<"e", "n", "t", "r", "y">>,
    <<"e", "n", "t", "r", "y", " ", "l", "e", "v", "e", "l">>,
    <<"f", "u", "l", "l", " ", "t", "i", "m", "e">>,
    <<"p", "a", "r", "t", " ", "t", "i", "m", "e">>,
    <<"w", "o", "r", "k", " ", "f", "r", "o", "m", " ", "h", "o", "m", "e">>,
    <<"r", "e", "m", "o", "t", "e">>,
    <<"o", "n", "s", "i", "t", "e">>,
    <<"h", "y", "b", "r", "i", "d">>,
    <<"i", "n", "t", "e", "r", "n">>,
    <<"i", "n", "t", "e", "r", "n", "s", "h", "i", "p">>,
    <<"c", "o", "m", "p", "a", "n", "y">>,
    <<"m", "a", "n", "a", "g", "e", "m", "e", "n", "t">>,
    <<"q", "u", "e", "s", "t", "i", "o", "n">>,
    <<"m", "a", "p", "p", "i", "n", "g">>,
    <<"c", "r", "e", "a", "t", "i", "o", "n">> }

\* AIRecommendationService._KEYWORD_TOKEN_STOPWORDS
_KEYWORD_TOKEN_STOPWORDS ==
  { <<"a", "n", "d">>,
    <<"o", "r">>,
    <<"w", "i", "t", "h">>,
    <<"f", "o", "r">>,
    <<"t", "h", "e">>,
    <<"a">>,
    <<"a", "n">>,
    <<"t", "o">>,
    <<"i", "n">>,
    <<"o", "n">>,
    <<"o", "f">>,
    <<"a", "t">>,
    <<"b", "y">>,
    <<"f", "r", "o", "m">>,
    <<"u", "s", "e", "r">>,
    <<"u", "s", "e", "r", "s">>,
    <<"b", "a", "s", "e", "d">> }

\* AIRecommendationService._RESUME_NOISE_TERMS
_RESUME_NOISE_TERMS ==
  { <<"i", "m", "p", "l", "e", "m", "e", "n", "t", "e", "d">>,
    <<"f", "e", "e", "d", "b", "a", "c", "k">>,
    <<"r", "a", "t", "i", "n", "g">>,
    <<"m", "e", "c", "h", "a", "n", "i", "s", "m", "s">>,
    <<"n", "o", "t", "i", "f", "i", "c", "a", "t", "i", "o", "n", "s">>,
    <<"a", "u", "t", "h", "e", "n", "t", "i", "c", "a", "t", "i", "o", "n">>,
    <<"t", "o", "k", "e", "n", "b", "a", "s", "e", "d">>,
    <<"l", "a", "r", "a", "v", "e", "l">>,
    <<"f", "r", "o", "n", "t", "e", "n", "d">>,
    <<"t", "y", "p", "e", "s", "c", "r", "i", "p", "t">>,
    <<"i", "n", "t", "e", "r", "a", "c", "t", "i", "v", "e">>,
    <<"r", "e", "s", "p", "o", "n", "s", "i", "v", "e">>,
    <<"u", "n", "i", "v", "e", "r", "s", "i", "t", "y">>,
    <<"b", "a", "c", "h", "e", "l", "o", "r">>,
    <<"t", "e", "c", "h", "n", "o", "l", "o", "g", "y">>,
    <<"b", "a", "t", "c", "h">>,
    <<"c", "g", "p", "a">>,
    <<"b", "o", "a", "r", "d">>,
    <<"h", "s", "c">>,
    <<"s", "s", "c">> }

\* the characters the class [\w\s\+\#\.] matches
KeywordChars ==
  {UpperCase[i] : i \in 1..26} \cup {LowerCase[i] : i \in 1..26}
    \cup Digits \cup {"_"} \cup Whitespace \cup {"+", "#", "."}

\* str.replace(old, " ") for a one-character old
ReplaceBySpace(s, old) == [i \in 1..Len(s) |-> IF s[i] = old THEN " " ELSE s[i]]

\* re.sub(r"[^\w\s\+\#\.]", "", s)
KeepKeywordChars(s) == SelectSeq(s, LAMBDA c : c \in KeywordChars)

\* AIRecommendationService._normalize_keyword
_normalize_keyword(value) ==
  Strip(KeepKeywordChars(
          ReplaceBySpace(
            ReplaceBySpace(Lower(Strip(CollapseWs(value), Whitespace)), "_"),
            "-")),
        Whitespace)

\* str.split() of cur followed by s: the words between the runs of
\* whitespace, each from its first character to its last
SplitWs(s, cur) ==
  LET text == cur \o s
      starts == SelectSeq([i \in 1..Len(text) |-> i],
                          LAMBDA i : /\ text[i] \notin Whitespace
                                     /\ (i = 1 \/ text[i - 1] \in Whitespace))
      EndOf(i) == CHOOSE j \in i..Len(text) :
                    /\ \A k \in i..j : text[k] \notin Whitespace
                    /\ (j = Len(text) \/ text[j + 1] \in Whitespace)
  IN  [n \in 1..Len(starts) |-> SubSeq(text, starts[n], EndOf(starts[n]))]

RECURSIVE JoinBySpace(_)
\* " ".join(tokens)
JoinBySpace(tokens) ==
  IF tokens = <<>> THEN <<>>
  ELSE IF Len(tokens) = 1 THEN Head(tokens)
  ELSE Head(tokens) \o <<" ">> \o JoinBySpace(Tail(tokens))

\* line 562: the tokens of key that are no token stop-words
KeywordTokens(key) ==
  SelectSeq(SplitWs(key, <<>>), LAMBDA tok : tok \notin _KEYWORD_TOKEN_STOPWORDS)

\* str.isdigit()
IsDigit(s) == s # <<>> /\ \A i \in 1..Len(s) : s[i] \in Digits

\* lines 555-571: the candidate raw is skipped (<<>>), or the key it yields
CandidateKey(raw) ==
  LET key == _normalize_keyword(raw)
      tokens == KeywordTokens(key)
  IN  IF key = <<>> THEN <<>>
      ELSE IF Len(key) < 2 \/ Len(key) > 64 THEN <<>>
      ELSE IF IsDigit(key) THEN <<>>
      ELSE IF tokens = <<>> THEN <<>>
      ELSE IF Len(tokens) > 4 THEN <<>>
      ELSE IF \E i \in 1..Len(tokens) : tokens[i] \in _RESUME_NOISE_TERMS
      THEN <<>>
      ELSE IF JoinBySpace(tokens) \in _GENERIC_KEYWORD_STOPWORDS THEN <<>>
      ELSE JoinBySpace(tokens)

RECURSIVE CandidateLoop(_, _, _)
\* lines 554-577: the loop over candidates with the list ordered built so
\* far (seen holds the same keys)
CandidateLoop(candidates, ordered, max_items) ==
  IF candidates = <<>> THEN ordered
  ELSE IF CandidateKey(Head(candidates)) = <<>>
          \/ \E i \in 1..Len(ordered) :
               ordered[i] = CandidateKey(Head(candidates))
  THEN CandidateLoop(Tail(candidates), ordered, max_items)
  ELSE IF Len(ordered) + 1 >= max_items
  THEN Append(ordered, CandidateKey(Head(candidates)))
  ELSE CandidateLoop(Tail(candidates),
                     Append(ordered, CandidateKey(Head(candidates))),
                     max_items)

RECURSIVE FallbackLoop(_, _, _)
\* lines 580-586: the loop over the fallback keywords
FallbackLoop(fallbacks, ordered, max_items) ==
  IF fallbacks = <<>> THEN ordered
  ELSE LET key == _normalize_keyword(Head(fallbacks))
           added == IF key # <<>> /\ \A i \in 1..Len(ordered) : ordered[i] # key
                    THEN Append(ordered, key) ELSE ordered
       IN  IF Len(added) >= max_items THEN added
           ELSE FallbackLoop(Tail(fallbacks), added, max_items)

\* the default of fallback_keywords (line 580)
DefaultFallbackKeywords ==
  << <<"s", "o", "f", "t", "w", "a", "r", "e", " ", "e", "n", "g", "i", "n", "e", "e", "r">>,
     <<"d", "e", "v", "e", "l", "o", "p", "e", "r">>, <<"i", "n", "t", "e", "r", "n">> >>

\* _prepare_search_keywords with ordered the list of the first loop
prepare_with(ordered, fallback_keywords, max_items) ==
  IF ordered = <<>>
  THEN FallbackLoop(IF fallback_keywords = <<>> THEN DefaultFallbackKeywords
                    ELSE fallback_keywords,
                    <<>>, max_items)
  ELSE ordered

\* AIRecommendationService._prepare_search_keywords for a list of strings
_prepare_search_keywords(keywords, fallback_keywords, max_items) ==
  prepare_with(CandidateLoop(keywords, <<>>, max_items),
               fallback_keywords, max_items)

\* number of keywords in a list given to _prepare_search_keywords
MaxKeywords == 2

\* the keywords of the model
RawKeywords ==
  { <<"P", "y", "t", "h", "o", "n">>,
    <<"n", "o", "d", "e", "-", "j", "s">>,
    <<"t", "h", "e", " ", "J", "o", "b", "s">>,
    <<"i", "n", "t", "e", "r", "n">>,
    <<"t", "o", " ", "a">>,
    <<"4", "2">>,
    <<"L", "a", "r", "a", "v", "e", "l", " ", "d", "e", "v">>,
    <<"c", "+", "+", " ", "d", "e", "v", " ", "f", "o", "r", " ", "a", " ", "b", " ", "c">>,
    <<"x", "x", "x", "x", "x", "x", "x", "x", "x", "x", "x", "x", "x", "x", "x", "x", "x", "x", "x", "x", "x", "x", "x", "x", "x", "x", "x", "x", "x", "x", "x", "x", "x", "x", "x", "x", "x", "x", "x", "x", "x", "x", "x", "x", "x", "x", "x", "x", "x", "x", "x", "x", "x", "x", "x", "x", "x", "x", "x", "x", "x", "x", "_", "-", "y">> }

\* the lists given as keywords
KeywordLists ==
  UNION {[1..n -> RawKeywords] : n \in 0..MaxKeywords}

\* the lists given as fallback_keywords: none (the default), and those of
\* the callers at lines 247 and 425
FallbackLists ==
  { <<>>,
    DefaultFallbackKeywords,
    << <<"s", "o", "f", "t", "w", "a", "r", "e", " ", "e", "n", "g", "i", "n", "e", "e", "r">>, <<"p", "y", "t", "h", "o", "n", " ", "d", "e", "v", "e", "l", "o", "p", "e", "r">>,
       <<"r", "e", "a", "c", "t", " ", "d", "e", "v", "e", "l", "o", "p", "e", "r">>, <<"d", "a", "t", "a", " ", "a", "n", "a", "l", "y", "s", "t">> >> }

\* the values given as max_items
MaxItemsValues == {1, 4, 12}

\* str.upper() of one character
UpperChar(c) ==
  IF \E i \in 1..26 : LowerCase[i] = c
  THEN UpperCase[CHOOSE i \in 1..26 : LowerCase[i] = c]
  ELSE c

\* the forms of a keyword list that differ from it only in letter case, in
\* whitespace, in a space for each hyphen and underscore, or in repetition
KeywordForms(keywords) ==
  [ case       |-> [i \in 1..Len(keywords) |->
                      [j \in 1..Len(keywords[i]) |-> UpperChar(keywords[i][j])]],
    whitespace |-> [i \in 1..Len(keywords) |->
                      <<" ">> \o CollapseWs(keywords[i]) \o <<"\t", " ">>],
    space      |-> [i \in 1..Len(keywords) |->
                      ReplaceBySpace(ReplaceBySpace(keywords[i], "_"), "-")],
    repetition |-> keywords \o keywords ]

Forms == {"case", "whitespace", "space", "repetition"}

IdleKeywords == [pc |-> "idle"]

KwInit == prep = IdleKeywords

\* a call of _prepare_search_keywords for keywords, and for each form of it
prepare_keywords(keywords, fallback_keywords, max_items) ==
  /\ prep.pc = "idle"
  /\ prep' = [pc |-> "prepared",
            keywords |-> keywords,
            fallback_keywords |-> fallback_keywords,
            max_items |-> max_items,
            result |-> _prepare_search_keywords(keywords, fallback_keywords,
                                                max_items),
            forms |-> [f \in Forms |->
                         _prepare_search_keywords(KeywordForms(keywords)[f],
                                                  fallback_keywords, max_items)]]
  /\ UNCHANGED outsideKeywords

\* the caller has taken the list
keywords_taken ==
  /\ prep.pc = "prepared"
  /\ prep' = IdleKeywords
  /\ UNCHANGED outsideKeywords

KwNext ==
  \/ prep.pc = "idle"
       /\ \E keywords \in KeywordLists, fallback_keywords \in FallbackLists,
             max_items \in MaxItemsValues :
            prepare_keywords(keywords, fallback_keywords, max_items)
  \/ keywords_taken

(***************************************************************************)
(* serialize_job and _queue_position                                       *)
(***************************************************************************)
\* serialize_job holds no lock: the fields of the job and the work queue
\* are read one after the other, and the other threads run in between

\* _queue_position, lines 212-218: the 1-based index of the first
\* occurrence of job_id in the snapshot of the work queue, 0 on ValueError
_queue_position(pending_ids, job_id) ==
  IF \E i \in 1..Len(pending_ids) : pending_ids[i] = job_id
  THEN CHOOSE i \in 1..Len(pending_ids) :
         /\ pending_ids[i] = job_id
         /\ \A j \in 1..(i - 1) : pending_ids[j] # job_id
  ELSE 0

\* the job objects a caller of serialize_job can hold
JobObjects(js) == {[job_id |-> id, job |-> js[id]] : id \in DOMAIN js}

\* what the job object of the call s holds now: the job of the map, or,
\* after a sweep has removed it from the map, some terminal state that the
\* object last read as seen can have ended in
HeldJobs(s, js) ==
  IF s.job_id \in DOMAIN js
  THEN {js[s.job_id]}
  ELSE IF s.seen.status \in Terminal
  THEN {s.seen}
  ELSE {[s.seen EXCEPT !.status = st, !.error = e, !.recommendations = r] :
          st \in (IF s.seen.status = "running"
                  THEN {"succeeded", "failed"} ELSE Terminal),
          e \in ExcMessages \cup {"Cancelled by user"},
          r \in RecLists}

IdleSerializer == [pc |-> "idle"]

SerInit == sz = IdleSerializer

\* serialize_job, lines 140-147, for the job object obj
serialize_job(obj, include_result) ==
  /\ sz.pc \in {"idle", "returned"}
  /\ sz' = [pc |-> "check", job_id |-> obj.job_id, seen |-> obj.job,
            include_result |-> include_result,
            payload |-> [job_id |-> obj.job_id,
                         status |-> obj.job.status,
                         created_at |-> obj.job.created_at,
                         started_at |-> obj.job.started_at,
                         completed_at |-> obj.job.completed_at,
                         retry_after_ms |-> DEFAULT_POLL_INTERVAL_MS]]
  /\ UNCHANGED outsideSerializer

\* serialize_job, line 149: if job.status == "queued", the job read as held
serialize_queued(held) ==
  /\ sz.pc = "check"
  /\ sz' = [sz EXCEPT !.pc = IF held.status = "queued"
                              THEN "position" ELSE "result",
                      !.seen = held]
  /\ UNCHANGED outsideSerializer

\* serialize_job, line 150: payload["queue_position"] =
\* self._queue_position(job.job_id)
serialize_position ==
  /\ sz.pc = "position"
  /\ sz' = [sz EXCEPT !.pc = "result",
                      !.payload = ("queue_position" :>
                                     _queue_position(queue, sz.job_id)) @@ @]
  /\ UNCHANGED outsideSerializer

\* the payload of lines 152-157 for the job read as held
ResultPayload(payload, held, include_result) ==
  IF include_result /\ held.status = "succeeded"
  THEN ("recommendations" :> held.recommendations)
         @@ ("total" :> Len(held.recommendations)) @@ payload
  ELSE IF include_result /\ held.status \in {"failed", "cancelled"}
  THEN ("error" :> (IF held.error # "" THEN held.error
                    ELSE "Recommendation job failed")) @@ payload
  ELSE payload

\* serialize_job, lines 152-157: the result or the error, and the return
serialize_returns(held) ==
  /\ sz.pc = "result"
  /\ sz' = [sz EXCEPT !.pc = "returned", !.seen = held,
                      !.payload = ResultPayload(@, held, sz.include_result)]
  /\ UNCHANGED outsideSerializer

\* the steps of one thread that calls serialize_job
SerializerNext ==
  \/ \E obj \in JobObjects(jobs), include_result \in BOOLEAN :
       serialize_job(obj, include_result)
  \/ sz.pc = "check" /\ \E held \in HeldJobs(sz, jobs) : serialize_queued(held)
  \/ serialize_position
  \/ sz.pc = "result" /\ \E held \in HeldJobs(sz, jobs) : serialize_returns(held)

(***************************************************************************)
(* The result cache: _load_cached_jobs, _save_cached_jobs and              *)
(* fetch_jobs_from_apify                                                   *)
(***************************************************************************)
\* the contents of the cache file: no file; a file json.load cannot parse
\* (empty or partly written); the legacy single-entry document; the
\* document with entries and latest_key
NoFile == [kind |-> "absent"]
Unparseable == [kind |-> "unparseable"]
LegacyFile(created_at, listings) ==
  [kind |-> "legacy", created_at |-> created_at, jobs |-> listings]
EntriesFile(latest_key, entries) ==
  [kind |-> "entries", latest_key |-> latest_key, entries |-> entries]

\* variant: the age of the entry is never tested
EntryJobs_NoAgeTest(entry, t, max_age_seconds) == entry.jobs

\* lines 133-139 and 145-151: the listings of an entry unless it is older
\* than max_age_seconds
EntryJobs(entry, t, max_age_seconds) ==
  IF max_age_seconds > 0 /\ entry.created_at > 0
     /\ (t - entry.created_at) > max_age_seconds
  THEN <<>>
  ELSE entry.jobs

\* variant: the key of the query is not looked up, the latest entry is read
_load_cached_jobs_LatestOnly(file, t, cache_key, max_age_seconds) ==
  IF file.kind = "absent" THEN <<>>
  ELSE IF file.kind = "unparseable" THEN <<>>
  ELSE IF file.kind = "legacy"
  THEN EntryJobs(file, t, max_age_seconds)
  ELSE IF file.latest_key # NoKey /\ file.latest_key \in DOMAIN file.entries
  THEN EntryJobs(file.entries[file.latest_key], t, max_age_seconds)
  ELSE <<>>

\* _load_cached_jobs on the file contents file at time t
_load_cached_jobs(file, t, cache_key, max_age_seconds) ==
  IF file.kind = "absent" THEN <<>>
  ELSE IF file.kind = "unparseable" THEN <<>>
  ELSE IF file.kind = "legacy"
  THEN EntryJobs(file, t, max_age_seconds)
  ELSE IF cache_key # NoKey /\ cache_key \in DOMAIN file.entries
  THEN EntryJobs(file.entries[cache_key], t, max_age_seconds)
  ELSE IF file.latest_key # NoKey /\ file.latest_key \in DOMAIN file.entries
  THEN EntryJobs(file.entries[file.latest_key], t, max_age_seconds)
  ELSE <<>>

\* variant: the new listings are appended to the listings the key had
SavedPayload_Merge(file, t, listings, cache_key) ==
  LET entries == IF file.kind = "entries" THEN file.entries ELSE <<>>
  IN  EntriesFile(cache_key,
        [k \in DOMAIN entries \cup {cache_key} |->
           IF k = cache_key
           THEN [created_at |-> t,
                 jobs |-> IF k \in DOMAIN entries
                          THEN entries[k].jobs \o listings ELSE listings]
           ELSE entries[k]])

\* _save_cached_jobs, lines 163-185: the document built from the contents
\* read from the file
SavedPayload(file, t, listings, cache_key) ==
  LET entries == IF file.kind = "entries" THEN file.entries ELSE <<>>
  IN  EntriesFile(cache_key,
        [k \in DOMAIN entries \cup {cache_key} |->
           IF k = cache_key THEN [created_at |-> t, jobs |-> listings]
           ELSE entries[k]])

CallIds == 1..MaxCalls

\* a call slot in which no call runs
IdleCall ==
  [pc |-> "idle", key |-> NoKey, live |-> <<>>, payload |-> NoFile,
   result |-> <<>>, invoked |-> FALSE, wrote |-> FALSE,
   held |-> FALSE, heldJobs |-> <<>>, stale |-> FALSE]

CacheInit ==
  /\ cacheFile \in {NoFile, LegacyFile(1, <<"listing-old">>)}
  /\ calls = [c \in CallIds |-> IdleCall]

\* the file holds a non-empty entry under cache_key that is no older than
\* the fresh window
HoldsFreshEntry(file, t, cache_key) ==
  /\ file.kind = "entries"
  /\ cache_key \in DOMAIN file.entries
  /\ file.entries[cache_key].jobs # <<>>
  /\ t - file.entries[cache_key].created_at <= APIFY_CACHE_FRESH_SECONDS

\* the entry a read of the file with cache_key looks at (lines 115-151): the
\* legacy document, the entry under cache_key, or else the latest entry
EntryRead(file, cache_key) ==
  IF file.kind = "legacy" THEN [created_at |-> file.created_at, jobs |-> file.jobs]
  ELSE IF file.kind # "entries" THEN [created_at |-> 0, jobs |-> <<>>]
  ELSE IF cache_key # NoKey /\ cache_key \in DOMAIN file.entries
  THEN file.entries[cache_key]
  ELSE IF file.latest_key # NoKey /\ file.latest_key \in DOMAIN file.entries
  THEN file.entries[file.latest_key]
  ELSE [created_at |-> 0, jobs |-> <<>>]

\* a read at time t returned listings, and the entry they were read from was
\* written longer ago than the fresh window
ReadIsStale(file, t, cache_key, listings) ==
  /\ listings # <<>>
  /\ EntryRead(file, cache_key).created_at > 0
  /\ t - EntryRead(file, cache_key).created_at > APIFY_CACHE_FRESH_SECONDS

\* fetch_jobs_from_apify, lines 488-499, with the listings the fresh read
\* returned
fetch_begin(c, cache_key, fresh_cached_jobs) ==
  calls' = [calls EXCEPT ![c] =
    [IdleCall EXCEPT
       !.key = cache_key,
       !.held = HoldsFreshEntry(cacheFile, now, cache_key),
       !.heldJobs = IF HoldsFreshEntry(cacheFile, now, cache_key)
                    THEN cacheFile.entries[cache_key].jobs ELSE <<>>,
       !.stale = ReadIsStale(cacheFile, now, cache_key, fresh_cached_jobs),
       !.pc = IF fresh_cached_jobs # <<>> THEN "done" ELSE "live",
       !.result = fresh_cached_jobs]]

\* fetch_jobs_from_apify, lines 488-499: the cache key and the fresh read
fetch_jobs_from_apify(c, q) ==
  /\ calls[c].pc = "idle"
  /\ fetch_begin(c, CacheKeyOf[q],
       _load_cached_jobs(cacheFile, now, CacheKeyOf[q], APIFY_CACHE_FRESH_SECONDS))
  /\ UNCHANGED <<cacheFile, now, outsideCache>>

\* lines 501-574: the Source Adapters run and the merged list is
\* deduplicated; a non-empty list goes to _save_cached_jobs
fetch_live(c, deduped) ==
  /\ calls[c].pc = "live"
  /\ calls' = [calls EXCEPT ![c].invoked = TRUE,
                            ![c].live = deduped,
                            ![c].pc = IF deduped # <<>> THEN "save_read"
                                      ELSE "fallback"]
  /\ UNCHANGED <<cacheFile, now, outsideCache>>

\* _save_cached_jobs, lines 163-185: read the file and build the document;
\* a file that cannot be parsed raises into the except clause, which gives
\* the save up
save_read(c) ==
  /\ calls[c].pc = "save_read"
  /\ IF cacheFile.kind = "unparseable"
     THEN calls' = [calls EXCEPT ![c].pc = "done", ![c].result = calls[c].live]
     ELSE calls' = [calls EXCEPT
            ![c].pc = "save_open",
            ![c].payload = SavedPayload(cacheFile, now, calls[c].live, calls[c].key)]
  /\ UNCHANGED <<cacheFile, now, outsideCache>>

\* _save_cached_jobs, line 187: open(path, "w") empties the file
save_open(c) ==
  /\ calls[c].pc = "save_open"
  /\ cacheFile' = Unparseable
  /\ calls' = [calls EXCEPT ![c].pc = "save_dump", ![c].wrote = TRUE]
  /\ UNCHANGED <<now, outsideCache>>

\* _save_cached_jobs, line 188, and the return of line 574: json.dump and
\* the close of the file. When another call has written its document since
\* this call emptied the file, this document overwrites the start of that
\* one: the file holds this document, or this document followed by the rest
\* of the longer one, which json.load cannot parse.
save_dump(c) ==
  /\ calls[c].pc = "save_dump"
  /\ \/ cacheFile' = calls[c].payload
     \/ cacheFile.kind = "entries" /\ cacheFile' = Unparseable
  /\ calls' = [calls EXCEPT ![c].pc = "done", ![c].result = calls[c].live,
                            ![c].payload = NoFile]
  /\ UNCHANGED <<now, outsideCache>>

\* lines 577-580, with the listings the read of the query's entry returned
fetch_fallback_result(c, cached_jobs) ==
  calls' = [calls EXCEPT
    ![c].pc = IF cached_jobs # <<>> THEN "done" ELSE "latest",
    ![c].stale = ReadIsStale(cacheFile, now, calls[c].key, cached_jobs),
    ![c].result = cached_jobs]

\* lines 576-580: the live result is empty, read the query's entry within
\* the fallback window
fetch_fallback(c) ==
  /\ calls[c].pc = "fallback"
  /\ fetch_fallback_result(c,
       _load_cached_jobs(cacheFile, now, calls[c].key, APIFY_CACHE_FALLBACK_SECONDS))
  /\ UNCHANGED <<cacheFile, now, outsideCache>>

\* lines 583-588, with the listings the read of the latest entry returned
fetch_latest_result(c, latest_cached_jobs) ==
  calls' = [calls EXCEPT
    ![c].pc = "done",
    ![c].stale = ReadIsStale(cacheFile, now, NoKey, latest_cached_jobs),
    ![c].result = latest_cached_jobs]

\* lines 582-588: read the latest entry within the fallback window; return
\* it, or the empty live result
fetch_latest(c) ==
  /\ calls[c].pc = "latest"
  /\ fetch_latest_result(c,
       _load_cached_jobs(cacheFile, now, NoKey, APIFY_CACHE_FALLBACK_SECONDS))
  /\ UNCHANGED <<cacheFile, now, outsideCache>>

\* the caller has taken the result; the slot is free for the next call
fetch_return(c) ==
  /\ calls[c].pc = "done"
  /\ calls' = [calls EXCEPT ![c] = IdleCall]
  /\ UNCHANGED <<cacheFile, now, outsideCache>>

\* time passes
CacheTick ==
  /\ \E t \in CacheTimes : t > now /\ now' = t
  /\ UNCHANGED <<cacheFile, calls, outsideCache>>

CacheNext ==
  \/ \E c \in CallIds, q \in Queries : fetch_jobs_from_apify(c, q)
  \/ \E c \in CallIds, deduped \in LiveResults : fetch_live(c, deduped)
  \/ \E c \in CallIds : save_read(c)
  \/ \E c \in CallIds : save_open(c)
  \/ \E c \in CallIds : save_dump(c)
  \/ \E c \in CallIds : fetch_fallback(c)
  \/ \E c \in CallIds : fetch_latest(c)
  \/ \E c \in CallIds : fetch_return(c)
  \/ CacheTick

(***************************************************************************)
(* ApifyJobScraper.search_all_platforms                                    *)
(***************************************************************************)
\* the keys of tasks and all_jobs
Platforms == {"linkedin", "naukri", "internshala"}

\* the lists an adapter can return
AdapterLists == {<<>>, <<"job-1">>, <<"job-1", "job-2">>}

\* a future of the executor: not submitted, running its adapter, or finished
\* with the adapter's list or with the exception the adapter raised
NoFuture == [st |-> "none", out |-> <<>>]
RunningFuture == [st |-> "running", out |-> <<>>]
ReturnedFuture(jobs_list) == [st |-> "returned", out |-> jobs_list]
RaisedFuture == [st |-> "raised", out |-> <<>>]

\* no call of search_all_platforms runs
IdleAggregator ==
  [pc |-> "idle",
   futures |-> [name \in Platforms |-> NoFuture],
   done |-> {},
   all_jobs |-> [name \in Platforms |-> <<>>],
   raised |-> FALSE]

AggInit == agg = IdleAggregator

\* lines 561-571: the tasks are submitted to an executor with three worker
\* threads, so every adapter starts at once; the caller enters wait()
search_all_platforms ==
  /\ agg.pc = "idle"
  /\ agg' = [IdleAggregator EXCEPT
               !.pc = "waiting",
               !.futures = [name \in Platforms |-> RunningFuture]]
  /\ UNCHANGED outsideAggregator

\* an adapter returns its list; its future is finished
adapter_returns(name, jobs_list) ==
  /\ agg.futures[name].st = "running"
  /\ agg' = [agg EXCEPT !.futures[name] = ReturnedFuture(jobs_list)]
  /\ UNCHANGED outsideAggregator

\* an adapter raises; its future is finished with the exception
adapter_raises(name) ==
  /\ agg.futures[name].st = "running"
  /\ agg' = [agg EXCEPT !.futures[name] = RaisedFuture]
  /\ UNCHANGED outsideAggregator

\* variant: future.result() of a future that raised is not guarded
collect_results_Unguarded(futures, done) ==
  [all_jobs |-> [name \in Platforms |->
                   IF name \in done /\ futures[name].st = "returned"
                   THEN futures[name].out ELSE <<>>],
   raised |-> \E name \in done : futures[name].st = "raised"]

\* lines 574-588: all_jobs after the loops over done and not_done.
\* future.result() of a done future is its list, or raises what the adapter
\* raised, which the except clause drops; future.cancel() on a running
\* future does nothing
collect_results(futures, done) ==
  [all_jobs |-> [name \in Platforms |->
                   IF name \in done /\ futures[name].st = "returned"
                   THEN futures[name].out ELSE <<>>],
   raised |-> FALSE]

\* lines 572-588, with the outcome of the two loops
wait_collect(done, outcome) ==
  agg' = [agg EXCEPT !.pc = IF outcome.raised THEN "raised" ELSE "shutdown",
                     !.done = done,
                     !.all_jobs = outcome.all_jobs,
                     !.raised = outcome.raised]

\* line 572: wait() returns when every future is finished or when
\* platform_timeout_secs have passed, whichever comes first; done holds the
\* futures finished at that moment. The timeout can expire at any point of
\* the adapters' progress.
wait_returns ==
  /\ agg.pc = "waiting"
  /\ wait_collect({name \in Platforms : agg.futures[name].st # "running"},
       collect_results(agg.futures,
                       {name \in Platforms : agg.futures[name].st # "running"}))
  /\ UNCHANGED outsideAggregator

\* line 570, the end of the with block: ThreadPoolExecutor.__exit__ calls
\* shutdown(wait=True), which joins the worker threads; it returns when no
\* adapter is running
executor_shutdown ==
  /\ agg.pc = "shutdown"
  /\ \A name \in Platforms : agg.futures[name].st # "running"
  /\ agg' = [agg EXCEPT !.pc = "returned"]
  /\ UNCHANGED outsideAggregator

\* lines 590-595: return all_jobs; the caller has taken it
search_returns ==
  /\ agg.pc = "returned"
  /\ agg' = IdleAggregator
  /\ UNCHANGED outsideAggregator

AggNext ==
  \/ search_all_platforms
  \/ \E name \in Platforms, jobs_list \in AdapterLists :
       adapter_returns(name, jobs_list)
  \/ \E name \in Platforms : adapter_raises(name)
  \/ wait_returns
  \/ executor_shutdown
  \/ search_returns

(***************************************************************************)
(* The listings: the item loops of the adapters, and the mapping and the   *)
(* merge of fetch_jobs_from_apify                                          *)
(***************************************************************************)
\* number of items an actor delivers to one adapter
MaxItems == 2

\* the order of the keys of all_jobs, which is the order of collection
PlatformOrder == <<"linkedin", "naukri", "internshala">>

\* the platform argument the adapters pass to _extract_item_url
PlatformArg ==
  [name \in Platforms |->
     IF name = "linkedin" THEN LinkedinName
     ELSE IF name = "naukri" THEN NaukriName ELSE InternshalaName]

\* the value of 'platform' the adapters write into a listing
PlatformLabel ==
  [name \in Platforms |->
     IF name = "linkedin" THEN <<"L", "i", "n", "k", "e", "d", "I", "n">>
     ELSE IF name = "naukri" THEN <<"N", "a", "u", "k", "r", "i">>
     ELSE <<"I", "n", "t", "e", "r", "n", "s", "h", "a", "l", "a">>]

\* the candidate keys of the adapters that the modelled items use, in the
\* order of the adapter's candidate_keys list
CandidateKeys ==
  [name \in Platforms |->
     IF name = "linkedin" THEN <<"link", "url">> ELSE <<"url", "link">>]

\* an item of an actor's dataset
Item(title, company, url, link, job) ==
  [title |-> title, company |-> company, url |-> url, link |-> link,
   job |-> job]

\* the items the actors can deliver
ActorItems ==
  [name \in Platforms |->
     IF name = "linkedin"
     THEN { Item(<<"D", "e", "v">>, <<"A", "c", "m", "e">>, NoValue, StrValue(<<"h", "t", "t", "p", "s", ":", "/", "/", "a", ".", "i", "o", "/", "J">>), NoValue),
            Item(<<"D", "e", "v">>, <<>>, NoValue, StrValue(<<"a", ".", "i", "o">>),
                 DictValue(<<"w", "w", "w", ".", "a", ".", "i", "o", "/", "j">>)),
            Item(<<>>, <<"A", "c", "m", "e">>, NoValue, StrValue(<<"h", "t", "t", "p", "s", ":", "/", "/", "a", ".", "i", "o", "/", "2">>), NoValue) }
     ELSE IF name = "naukri"
     THEN { Item(<<"D", "e", "v">>, <<"A", "c", "m", "e">>, StrValue(<<" ", "/", "/", "a", ".", "i", "o", "/", "j">>), NoValue, NoValue),
            Item(<<"O", "p", "s">>, <<"A", "c", "m", "e">>, NoValue, NoValue, NoValue),
            Item(<<"o", "p", "s">>, <<"A", "c", "m", "e">>, NoValue, StrValue(<<>>), NoValue) }
     ELSE { Item(<<"O", "p", "s">>, <<"A", "c", "m", "e">>, NoValue, StrValue(<<"/", "i", "/", "1">>), NoValue),
            Item(<<"D", "e", "v">>, <<"A", "c", "m", "e">>, StrValue(<<"h", "t", "t", "p", "s", ":", "/", "/", "a", ".", "i", "o", "/", "?", "a", "m", "p", ";", "x", "&", "a", "m", "p", ";", "y">>), NoValue, NoValue) }]

\* the location of the query
QueryLocation == <<"G", "o", "a">>

\* the lists of at most n elements of S
ListsUpTo(S, n) == UNION {[1..k -> S] : k \in 0..n}

RECURSIVE ExtractFromKeys(_, _, _)
\* _extract_item_url, lines 228-244: the loop over candidate_keys; the
\* empty string when no key yields a URL
ExtractFromKeys(item, keys, platform) ==
  IF keys = <<>> THEN <<>>
  ELSE IF item[Head(keys)].t = "none"
  THEN ExtractFromKeys(item, Tail(keys), platform)
  ELSE IF _normalize_http_url(item[Head(keys)]) # <<>>
  THEN _normalize_http_url(item[Head(keys)])
  ELSE IF item[Head(keys)].t = "str"
          /\ StartsWith(html_unescape(Strip(item[Head(keys)].s, Whitespace)),
                        <<"/">>)
  THEN PlatformSite(platform)
         \o html_unescape(Strip(item[Head(keys)].s, Whitespace))
  ELSE ExtractFromKeys(item, Tail(keys), platform)

\* variant: no search URL is built when nothing yields a link
_extract_item_url_NoFallback(item, candidate_keys, platform, title, location) ==
  IF ExtractFromKeys(item, candidate_keys, platform) # <<>>
  THEN ExtractFromKeys(item, candidate_keys, platform)
  ELSE _normalize_http_url(item.job)

\* ApifyJobScraper._extract_item_url
_extract_item_url(item, candidate_keys, platform, title, location) ==
  IF ExtractFromKeys(item, candidate_keys, platform) # <<>>
  THEN ExtractFromKeys(item, candidate_keys, platform)
  ELSE IF _normalize_http_url(item.job) # <<>>
  THEN _normalize_http_url(item.job)
  ELSE Scraper_build_platform_search_url(platform, title, location)

\* the job_data an adapter builds from an item (the fields read later)
job_data(item, name, safe_location) ==
  [title |-> item.title,
   company |-> item.company,
   location |-> <<>>,
   link |-> _extract_item_url(item, CandidateKeys[name], PlatformArg[name],
                              item.title, safe_location),
   platform |-> PlatformLabel[name]]

\* the location an adapter passes to _extract_item_url: search_linkedin_jobs
\* and search_naukri_jobs sanitize theirs, search_internshala_jobs passes
\* 'India'
AdapterLocation(name, location) ==
  IF name = "internshala" THEN DefaultLocation ELSE _sanitize_location(location)

\* the job_data of every item, evaluated once
JobDataOf ==
  [name \in Platforms |->
     [item \in ActorItems[name] |->
        job_data(item, name, AdapterLocation(name, QueryLocation))]]

RECURSIVE AdapterJobs_StopsAtMalformed(_, _)
\* variant: the item loop ends at the first item without a title
AdapterJobs_StopsAtMalformed(items, name) ==
  IF items = <<>> THEN <<>>
  ELSE IF Head(items).title = <<>> THEN <<>>
  ELSE <<JobDataOf[name][Head(items)]>>
         \o AdapterJobs_StopsAtMalformed(Tail(items), name)

RECURSIVE AdapterJobs(_, _)
\* the item loop of an adapter: a listing per item that has a title
AdapterJobs(items, name) ==
  IF items = <<>> THEN <<>>
  ELSE (IF Head(items).title # <<>>
        THEN <<JobDataOf[name][Head(items)]>> ELSE <<>>)
       \o AdapterJobs(Tail(items), name)

\* the listings the adapters can produce
AdapterListings ==
  UNION {{JobDataOf[name][item] : item \in ActorItems[name]} :
           name \in Platforms}

\* _canonical_platform
_canonical_platform(source) ==
  IF Contains(Lower(Strip(source, Whitespace)), LinkedinName) THEN LinkedinName
  ELSE IF Contains(Lower(Strip(source, Whitespace)), NaukriName) THEN NaukriName
  ELSE IF Contains(Lower(Strip(source, Whitespace)), InternshalaName)
  THEN InternshalaName
  ELSE IF Lower(Strip(source, Whitespace)) = <<>> THEN <<"e", "x", "t", "e", "r", "n", "a", "l">>
  ELSE Lower(Strip(source, Whitespace))

\* _extract_best_job_url: of the candidates only 'link' is a key of the
\* adapters' listings
_extract_best_job_url(job, platform, default_location) ==
  IF _normalize_external_url(StrValue(job.link)) # <<>>
  THEN _normalize_external_url(StrValue(job.link))
  ELSE _build_platform_search_url(
         platform,
         IF job.title = <<>> THEN DefaultTitle ELSE job.title,
         IF job.location # <<>> THEN job.location
         ELSE IF default_location # <<>> THEN default_location
         ELSE DefaultLocation)

\* fetch_jobs_from_apify, lines 511-542: the mapped_job of an adapter
\* listing (the fields read later)
mapped_job(job, location) ==
  [title |-> IF job.title = <<>> THEN <<"J", "o", "b", " ", "T", "i", "t", "l", "e">> ELSE job.title,
   company_name |-> IF job.company = <<>> THEN <<"C", "o", "m", "p", "a", "n", "y">> ELSE job.company,
   url |-> IF _normalize_external_url(StrValue(job.link)) # <<>>
           THEN _normalize_external_url(StrValue(job.link))
           ELSE _extract_best_job_url(job, _canonical_platform(job.platform),
                                      location),
   source |-> _canonical_platform(job.platform)]

\* the mapped_job of every adapter listing, evaluated once
MappedJobOf ==
  [job \in AdapterListings |->
     mapped_job(job, _sanitize_location(QueryLocation))]

\* the mapped listings that can occur
MappedJobs == {MappedJobOf[job] : job \in AdapterListings}

\* the inner loop of lines 510-543 over the list of one platform
MapList(jobs_list) == [i \in 1..Len(jobs_list) |-> MappedJobOf[jobs_list[i]]]

\* fetch_jobs_from_apify, lines 509-543: all_jobs after the two loops, in
\* the order of the platforms and, within a platform, of its list
map_platforms(scraped_data) ==
  MapList(scraped_data[PlatformOrder[1]])
    \o MapList(scraped_data[PlatformOrder[2]])
    \o MapList(scraped_data[PlatformOrder[3]])

\* variant: the URL is compared as written, not lowercased
DedupKey_CaseSensitive(job) ==
  IF _normalize_external_url(StrValue(job.url)) # <<>>
  THEN <<"url", _normalize_external_url(StrValue(job.url))>>
  ELSE <<"meta", Lower(Strip(job.title, Whitespace)),
         Lower(Strip(job.company_name, Whitespace)),
         Lower(Strip(job.source, Whitespace))>>

\* lines 554-564: the key of a listing in the merge
DedupKey(job) ==
  IF _normalize_external_url(StrValue(job.url)) # <<>>
  THEN <<"url", Lower(_normalize_external_url(StrValue(job.url)))>>
  ELSE <<"meta", Lower(Strip(job.title, Whitespace)),
         Lower(Strip(job.company_name, Whitespace)),
         Lower(Strip(job.source, Whitespace))>>

\* the key of every mapped listing, evaluated once
DedupKeyOf == [job \in MappedJobs |-> DedupKey(job)]

RECURSIVE DedupeLoop(_, _, _)
\* lines 553-568: the loop over all_jobs with the set seen and the list
\* deduped built so far
DedupeLoop(all_jobs, seen, deduped) ==
  IF all_jobs = <<>> THEN deduped
  ELSE IF DedupKeyOf[Head(all_jobs)] \in seen
  THEN DedupeLoop(Tail(all_jobs), seen, deduped)
  ELSE DedupeLoop(Tail(all_jobs), seen \cup {DedupKeyOf[Head(all_jobs)]},
                  Append(deduped, Head(all_jobs)))

\* nothing is on its way
IdlePipe ==
  [pc |-> "idle",
   items |-> [name \in Platforms |-> <<>>],
   scraped_data |-> [name \in Platforms |-> <<>>],
   all_jobs |-> <<>>,
   deduped |-> <<>>]

PipeInit == pipe = IdlePipe

\* the three adapters run their item loops over the items their actors
\* delivered
scrape(items) ==
  /\ pipe.pc = "idle"
  /\ pipe' = [IdlePipe EXCEPT
       !.pc = "scraped",
       !.items = items,
       !.scraped_data =
          [name \in Platforms |->
             AdapterJobs(items[name], name)]]
  /\ UNCHANGED outsideListings

\* fetch_jobs_from_apify, lines 509-543
map_jobs ==
  /\ pipe.pc = "scraped"
  /\ pipe' = [pipe EXCEPT
       !.pc = "mapped",
       !.all_jobs = map_platforms(pipe.scraped_data)]
  /\ UNCHANGED outsideListings

\* fetch_jobs_from_apify, lines 550-568
dedupe ==
  /\ pipe.pc = "mapped"
  /\ pipe' = [pipe EXCEPT !.pc = "deduped",
                          !.deduped = DedupeLoop(pipe.all_jobs, {}, <<>>)]
  /\ UNCHANGED outsideListings

\* the merged list has been handed on
listings_taken ==
  /\ pipe.pc = "deduped"
  /\ pipe' = IdlePipe
  /\ UNCHANGED outsideListings

ListingNext ==
  \/ \E linkedin \in ListsUpTo(ActorItems["linkedin"], MaxItems),
          naukri \in ListsUpTo(ActorItems["naukri"], MaxItems),
          internshala \in ListsUpTo(ActorItems["internshala"], MaxItems) :
       scrape([name \in Platforms |->
                 IF name = "linkedin" THEN linkedin
                 ELSE IF name = "naukri" THEN naukri ELSE internshala])
  \/ map_jobs
  \/ dedupe
  \/ listings_taken

(***************************************************************************)
(* Credential rotation and the adapters: apify_client.py                   *)
(***************************************************************************)
\* the largest number of raw credentials of one configuration
MaxTokens == 3

\* the credentials a configuration can name
Tokens == {"token-a", "token-b", "token-c"}

\* the actor ids and run inputs of a call
ActorIds == {"actor-1", "actor-2"}
RunInputs == {"input-1", "input-2"}

\* the texts _is_apify_limit_error looks for, line 120
MonthlyLimitText ==
  <<"m", "o", "n", "t", "h", "l", "y", " ", "u", "s", "a", "g", "e",
    " ", "h", "a", "r", "d", " ", "l", "i", "m", "i", "t", " ", "e",
    "x", "c", "e", "e", "d", "e", "d">>
LimitText ==
  <<"u", "s", "a", "g", "e", " ", "h", "a", "r", "d", " ", "l", "i",
    "m", "i", "t", " ", "e", "x", "c", "e", "e", "d", "e", "d">>

\* messages of the exceptions an actor call raises: the quota error of
\* the service, a network error, an authentication error
QuotaMessage ==
  <<"M", "o", "n", "t", "h", "l", "y", " ", "u", "s", "a", "g", "e",
    " ", "h", "a", "r", "d", " ", "l", "i", "m", "i", "t", " ", "e",
    "x", "c", "e", "e", "d", "e", "d">>
NetworkMessage ==
  <<"C", "o", "n", "n", "e", "c", "t", "i", "o", "n", " ", "r", "e",
    "f", "u", "s", "e", "d">>
AuthMessage ==
  <<"A", "u", "t", "h", "e", "n", "t", "i", "c", "a", "t", "i", "o",
    "n", " ", "t", "o", "k", "e", "n", " ", "i", "s", " ", "n", "o",
    "t", " ", "v", "a", "l", "i", "d">>
ErrorMessages == {QuotaMessage, NetworkMessage, AuthMessage}

\* _is_apify_limit_error
_is_apify_limit_error(message) ==
  \/ Contains(Lower(message), MonthlyLimitText)
  \/ Contains(Lower(message), LimitText)

\* _is_apify_limit_error of every message, evaluated once
IsLimitOf == [m \in ErrorMessages |-> _is_apify_limit_error(m)]

RECURSIVE BuildTokenPool(_, _)
\* _build_token_pool, lines 159-166: the tokens in order, each kept at its
\* first occurrence
BuildTokenPool(raw, seen) ==
  IF raw = <<>> THEN <<>>
  ELSE IF Head(raw) \in seen THEN BuildTokenPool(Tail(raw), seen)
  ELSE <<Head(raw)>> \o BuildTokenPool(Tail(raw), seen \cup {Head(raw)})

\* _build_token_pool, over raw values already split into tokens
_build_token_pool(raw) == BuildTokenPool(raw, {})

\* the pools _build_token_pool can yield
TokenPools == {_build_token_pool(raw) : raw \in ListsUpTo(Tokens, MaxTokens)}

\* what client.actor(actor_id).call does for one credential: it returns a
\* run with a dataset, a run without one, or raises
ReturnsRun(dataset) == [kind |-> "run", dataset |-> dataset]
RaisesError(message) == [kind |-> "raise", message |-> message]
Behaviours ==
  {ReturnsRun(TRUE), ReturnsRun(FALSE)}
    \cup {RaisesError(m) : m \in ErrorMessages}

\* the answers of the service to the credentials of one pool; a credential
\* outside the pool is never called
BackendsFor(token_pool) ==
  LET used == {token_pool[i] : i \in 1..Len(token_pool)} IN
  {[t \in Tokens |-> IF t \in used THEN f[t] ELSE ReturnsRun(FALSE)] :
     f \in [used -> Behaviours]}

\* _get_client: one client per credential
_get_client(token) == [token |-> token]

\* the run an actor call returns
RunOf(token, dataset) == [by |-> token, defaultDatasetId |-> dataset]

\* the exception an actor call raises
ErrorOf(token, message) ==
  [type |-> "ApifyError", message |-> message, by |-> token]

\* ValueError(f"{platform_name} token pool is empty"), line 182
EmptyPoolError == [type |-> "ValueError", message |-> <<>>, by |-> "none"]

NoError == [type |-> "none", message |-> <<>>, by |-> "none"]
NoRun == [by |-> "none", defaultDatasetId |-> FALSE]
NoClient == [token |-> "none"]

\* what an adapter hands to its caller
NoOutcome == [kind |-> "none", jobs |-> <<>>, error |-> NoError]
ReturnsList(jobs_list) == [kind |-> "list", jobs |-> jobs_list, error |-> NoError]

\* has_next that leaves out the last credential
HasNext_SkipsLast(idx, token_pool) == idx < Len(token_pool) - 1

\* has_next, line 193, for idx counted from 1
HasNext(idx, token_pool) == idx < Len(token_pool)

\* rotation on quota errors only
ShouldRotate_LimitOnly(is_limit, has_next) == is_limit /\ has_next

\* the two continue branches, lines 194-199
ShouldRotate(is_limit, has_next) ==
  \/ is_limit /\ has_next
  \/ has_next /\ ~is_limit

\* no call
IdleRotation ==
  [pc |-> "idle", caller |-> "none", actor_id |-> "none",
   run_input |-> "none", token_pool |-> <<>>,
   backend |-> [t \in Tokens |-> ReturnsRun(FALSE)],
   idx |-> 0, attempts |-> <<>>, last_error |-> NoError,
   run |-> NoRun, client |-> NoClient, error |-> NoError,
   adapter |-> NoOutcome]

RotInit == rot = IdleRotation

\* the state in which _call_actor_with_fallback starts: with an empty pool
\* it raises ValueError before any call (lines 181-182), otherwise it
\* enters the loop with the first credential
BeginCall(caller, actor_id, run_input, token_pool, backend) ==
  [IdleRotation EXCEPT
     !.caller = caller, !.actor_id = actor_id, !.run_input = run_input,
     !.token_pool = token_pool, !.backend = backend,
     !.pc = IF token_pool = <<>> THEN "raised" ELSE "calling",
     !.idx = IF token_pool = <<>> THEN 0 ELSE 1,
     !.error = IF token_pool = <<>> THEN EmptyPoolError ELSE NoError]

\* a call of _call_actor_with_fallback by any caller, with any pool
\* _build_token_pool can yield
_call_actor_with_fallback(actor_id, run_input, token_pool, backend) ==
  /\ rot.pc = "idle"
  /\ rot' = BeginCall("direct", actor_id, run_input, token_pool, backend)
  /\ UNCHANGED outsideRotation

\* the token pool an adapter passes, lines 32-48 and 278: the pool of the
\* platform, or the default pool when that one is empty
AdapterPool(specific, defaults) ==
  IF _build_token_pool(specific \o defaults) # <<>>
  THEN _build_token_pool(specific \o defaults)
  ELSE _build_token_pool(defaults)

\* search_linkedin_jobs, search_naukri_jobs, search_internshala_jobs up to
\* the actor call: the naukri and internshala adapters return the empty
\* list when their actor id is not configured
search_platform(name, actor_id, specific, defaults, run_input, backend) ==
  /\ rot.pc = "idle"
  /\ name = "linkedin" => actor_id # "none"
  /\ rot' =
       IF actor_id = "none"
       THEN [IdleRotation EXCEPT
               !.pc = "done", !.caller = name, !.adapter = ReturnsList(<<>>)]
       ELSE BeginCall(name, actor_id, run_input,
                      AdapterPool(specific, defaults), backend)
  /\ UNCHANGED outsideRotation

\* the actor call of the current credential returns a run: lines 187-190
actor_call_returns ==
  /\ rot.pc = "calling"
  /\ LET token == rot.token_pool[rot.idx]
         answer == rot.backend[token]
     IN  /\ answer.kind = "run"
         /\ rot' = [rot EXCEPT
              !.pc = "returned",
              !.attempts = Append(@,
                 [token |-> token, actor_id |-> rot.actor_id,
                  run_input |-> rot.run_input, ok |-> TRUE,
                  error |-> NoError]),
              !.run = RunOf(token, answer.dataset),
              !.client = _get_client(token)]
  /\ UNCHANGED outsideRotation

\* the actor call of the current credential raises: lines 191-200
actor_call_raises ==
  /\ rot.pc = "calling"
  /\ LET token == rot.token_pool[rot.idx]
         answer == rot.backend[token]
     IN  /\ answer.kind = "raise"
         /\ LET e == ErrorOf(token, answer.message)
                is_limit == IsLimitOf[answer.message]
                has_next == HasNext(rot.idx, rot.token_pool)
                tried == Append(rot.attempts,
                   [token |-> token, actor_id |-> rot.actor_id,
                    run_input |-> rot.run_input, ok |-> FALSE,
                    error |-> e])
            IN  rot' =
                  IF ShouldRotate(is_limit, has_next)
                  THEN [rot EXCEPT !.attempts = tried, !.last_error = e,
                                   !.idx = @ + 1]
                  ELSE [rot EXCEPT !.attempts = tried, !.last_error = e,
                                   !.pc = "raised", !.error = e]
  /\ UNCHANGED outsideRotation

\* the adapter after the run: the listings of the dataset's items, or no
\* listing when the run names no dataset (lines 285-336)
adapter_collects(items) ==
  /\ rot.pc = "returned"
  /\ rot.caller \in Platforms
  /\ items \in ListsUpTo(ActorItems[rot.caller], MaxItems)
  /\ ~rot.run.defaultDatasetId => items = <<>>
  /\ rot' = [rot EXCEPT
       !.pc = "done",
       !.adapter = ReturnsList(AdapterJobs(items, rot.caller))]
  /\ UNCHANGED outsideRotation

\* dataset.list_items raises: except Exception, line 338, and return jobs
dataset_raises ==
  /\ rot.pc = "returned"
  /\ rot.caller \in Platforms
  /\ rot.run.defaultDatasetId
  /\ rot' = [rot EXCEPT !.pc = "done", !.adapter = ReturnsList(<<>>)]
  /\ UNCHANGED outsideRotation

\* what the adapter does with the exception of _call_actor_with_fallback:
\* except Exception, line 338, prints it, and line 351 returns jobs
adapter_handles(e) == ReturnsList(<<>>)

\* _call_actor_with_fallback raised inside an adapter
adapter_catches ==
  /\ rot.pc = "raised"
  /\ rot.caller \in Platforms
  /\ rot' = [rot EXCEPT !.pc = "done", !.adapter = adapter_handles(rot.error)]
  /\ UNCHANGED outsideRotation

RotationNext ==
  \/ /\ rot.pc = "idle"
     /\ \E actor_id \in ActorIds, run_input \in RunInputs,
           token_pool \in TokenPools :
          \E backend \in BackendsFor(token_pool) :
            _call_actor_with_fallback(actor_id, run_input, token_pool,
                                      backend)
  \/ /\ rot.pc = "idle"
     /\ \E name \in Platforms, actor_id \in ActorIds \cup {"none"},
           specific \in ListsUpTo(Tokens, 1),
           defaults \in ListsUpTo(Tokens, 2) \ {<<>>} :
          \E backend \in BackendsFor(AdapterPool(specific, defaults)) :
            search_platform(name, actor_id, specific, defaults, "input-1",
                            backend)
  \/ actor_call_returns
  \/ actor_call_raises
  \/ /\ rot.pc = "returned"
     /\ rot.caller \in Platforms
     /\ \E items \in ListsUpTo(ActorItems[rot.caller], MaxItems) :
          adapter_collects(items)
  \/ dataset_raises
  \/ adapter_catches

(***************************************************************************)
(* Cache keys of queries that differ in form only                          *)
(***************************************************************************)
\* the largest number of changes made to one query
MaxEdits == 2

\* sixteen keywords, no two alike
SixteenKeywords ==
  << <<"a", " ", "b">>, <<"c">>, <<"d">>, <<"e">>, <<"f">>, <<"g">>,
     <<"h">>, <<"i">>, <<"j">>, <<"k">>, <<"l">>, <<"m">>, <<"n">>,
     <<"o">>, <<"p">>, <<"q">> >>

\* the queries whose keys are built first
KeyQueries ==
  { [keywords |-> SixteenKeywords, location |-> <<"G", "o", "a">>],
    [keywords |-> SixteenKeywords \o << <<"r">> >>, location |-> <<"G", "o", "a">>],
    [keywords |-> << <<"P", "y">>, <<"g", "o", " ", "\t", "l", "a", "n", "g">> >>,
     location |-> <<" ", "g", "o", "a", ";">>] }

\* keywords added to a query
ExtraKeywords == { <<"x">>, <<"Y", " ", "z">> }

\* locations a query is given
KeyLocations ==
  { <<"G", "o", "a">>, <<" ", "g", "o", "a", ";">>, <<"G", "O", "A">>,
    <<"P", "u", "n", "e">> }

\* the other case of a letter
ToggleChar(c) ==
  IF \E i \in 1..26 : UpperCase[i] = c
  THEN LowerCase[CHOOSE i \in 1..26 : UpperCase[i] = c]
  ELSE IF \E i \in 1..26 : LowerCase[i] = c
  THEN UpperCase[CHOOSE i \in 1..26 : LowerCase[i] = c]
  ELSE c

\* seq with x put at position p
InsertAt(seq, p, x) ==
  SubSeq(seq, 1, p - 1) \o <<x>> \o SubSeq(seq, p, Len(seq))

\* seq without its element at position p
RemoveAt(seq, p) == SubSeq(seq, 1, p - 1) \o SubSeq(seq, p + 1, Len(seq))

RECURSIVE Words(_, _)
\* the words of a keyword, letters in lower case
Words(s, cur) ==
  IF s = <<>> THEN (IF cur = <<>> THEN <<>> ELSE <<cur>>)
  ELSE IF Head(s) \in Whitespace
  THEN (IF cur = <<>> THEN <<>> ELSE <<cur>>) \o Words(Tail(s), <<>>)
  ELSE Words(Tail(s), Append(cur, LowerChar(Head(s))))

\* the number of different keywords before position p of a keyword list
DistinctBefore(keywords, p) ==
  Cardinality({Words(keywords[i], <<>>) : i \in 1..(p - 1)} \ {<<>>})

\* no key built
IdleKeys ==
  [pc |-> "idle", keywords |-> <<>>, location |-> <<>>, key |-> NoKey,
   first_key |-> NoKey, edits |-> 0, kinds |-> {}]

KeyInit == ck = IdleKeys

\* _build_cache_key(keywords, location) for the first form of a query
build_cache_key(q) ==
  /\ ck.pc = "idle"
  /\ ck' = [IdleKeys EXCEPT
       !.pc = "built", !.keywords = q.keywords, !.location = q.location,
       !.key = _build_cache_key(q.keywords, q.location),
       !.first_key = _build_cache_key(q.keywords, q.location)]
  /\ UNCHANGED outsideKeys

\* _build_cache_key for another form of the query
Rebuild(keywords, location, kind) ==
  /\ ck.pc = "built"
  /\ ck.edits < MaxEdits
  /\ ck' = [ck EXCEPT
       !.keywords = keywords, !.location = location,
       !.key = _build_cache_key(keywords, location),
       !.edits = @ + 1, !.kinds = @ \cup {kind}]
  /\ UNCHANGED outsideKeys

\* one letter of keyword i in the other case
change_case(i, j) ==
  /\ i \in 1..Len(ck.keywords)
  /\ j \in 1..Len(ck.keywords[i])
  /\ ToggleChar(ck.keywords[i][j]) # ck.keywords[i][j]
  /\ Rebuild([ck.keywords EXCEPT ![i][j] = ToggleChar(@)], ck.location,
             "case")

\* whitespace before or after keyword i
pad_keyword(i, w, atEnd) ==
  /\ i \in 1..Len(ck.keywords)
  /\ w \in Whitespace
  /\ Rebuild([ck.keywords EXCEPT
                ![i] = IF atEnd THEN Append(@, w) ELSE <<w>> \o @],
             ck.location, "surrounding")

\* more whitespace next to the whitespace at position j of keyword i
repeat_whitespace(i, j, w) ==
  /\ i \in 1..Len(ck.keywords)
  /\ j \in 1..Len(ck.keywords[i])
  /\ ck.keywords[i][j] \in Whitespace
  /\ w \in Whitespace
  /\ Rebuild([ck.keywords EXCEPT ![i] = InsertAt(@, j, w)], ck.location,
             "repeated")

\* keyword i once more, at a later position p
repeat_keyword(i, p) ==
  /\ i \in 1..Len(ck.keywords)
  /\ p \in (i + 1)..(Len(ck.keywords) + 1)
  /\ Rebuild(InsertAt(ck.keywords, p, ck.keywords[i]), ck.location,
             "repeat")

\* another keyword at a position p with sixteen different keywords before
\* it
keyword_beyond(p, k) ==
  /\ p \in 1..(Len(ck.keywords) + 1)
  /\ DistinctBefore(ck.keywords, p) >= 16
  /\ Rebuild(InsertAt(ck.keywords, p, k), ck.location, "beyond")

\* without the keyword at a position p with sixteen different keywords
\* before it
drop_beyond(p) ==
  /\ p \in 1..Len(ck.keywords)
  /\ DistinctBefore(ck.keywords, p) >= 16
  /\ Rebuild(RemoveAt(ck.keywords, p), ck.location, "dropped")

\* another location that _sanitize_location takes to the same string, case
\* ignored
change_location(l) ==
  /\ l # ck.location
  /\ Lower(_sanitize_location(l)) = Lower(_sanitize_location(ck.location))
  /\ Rebuild(ck.keywords, l, "location")

KeyNext ==
  \/ /\ ck.pc = "idle"
     /\ \E q \in KeyQueries : build_cache_key(q)
  \/ \E i \in 1..Len(ck.keywords) :
       \E j \in 1..Len(ck.keywords[i]) : change_case(i, j)
  \/ \E i \in 1..Len(ck.keywords), atEnd \in BOOLEAN :
       pad_keyword(i, " ", atEnd)
  \/ \E i \in 1..Len(ck.keywords), w \in Whitespace :
       \E j \in 1..Len(ck.keywords[i]) : repeat_whitespace(i, j, w)
  \/ \E i \in 1..Len(ck.keywords) :
       \E p \in {i + 1, Len(ck.keywords) + 1} : repeat_keyword(i, p)
  \/ \E p \in 1..(Len(ck.keywords) + 1), k \in ExtraKeywords :
       keyword_beyond(p, k)
  \/ \E p \in 1..Len(ck.keywords) : drop_beyond(p)
  \/ \E l \in KeyLocations : change_location(l)

(***************************************************************************)
(* Scoring and ranking: AIRecommendationService.match_jobs                 *)
(***************************************************************************)
\* the largest number of jobs of one call of match_jobs
MaxMatchJobs == 3

\* the units of a score: a score of 1 is ScoreUnit units
ScoreUnit == 1000

\* tech_skills of _extract_skills_from_text
TECH_SKILLS ==
  << <<"p","y","t","h","o","n">>, <<"j","a","v","a">>,
     <<"j","a","v","a","s","c","r","i","p","t">>,
     <<"t","y","p","e","s","c","r","i","p","t">>, <<"c","+","+">>,
     <<"c","#">>, <<"g","o">>, <<"r","u","s","t">>, <<"r","u","b","y">>,
     <<"p","h","p">>, <<"r","e","a","c","t">>,
     <<"a","n","g","u","l","a","r">>, <<"v","u","e">>,
     <<"n","o","d","e",".","j","s">>, <<"n","o","d","e","j","s">>,
     <<"e","x","p","r","e","s","s">>, <<"d","j","a","n","g","o">>,
     <<"f","l","a","s","k">>, <<"s","p","r","i","n","g">>, <<"s","q","l">>,
     <<"m","y","s","q","l">>, <<"p","o","s","t","g","r","e","s","q","l">>,
     <<"m","o","n","g","o","d","b">>, <<"r","e","d","i","s">>,
     <<"o","r","a","c","l","e">>, <<"d","a","t","a","b","a","s","e">>,
     <<"a","w","s">>, <<"a","z","u","r","e">>, <<"g","c","p">>,
     <<"g","o","o","g","l","e"," ","c","l","o","u","d">>,
     <<"d","o","c","k","e","r">>,
     <<"k","u","b","e","r","n","e","t","e","s">>, <<"k","8","s">>,
     <<"t","e","r","r","a","f","o","r","m">>, <<"h","t","m","l">>,
     <<"c","s","s">>, <<"b","o","o","t","s","t","r","a","p">>,
     <<"t","a","i","l","w","i","n","d">>, <<"s","a","s","s">>,
     <<"l","e","s","s">>, <<"a","n","d","r","o","i","d">>, <<"i","o","s">>,
     <<"r","e","a","c","t"," ","n","a","t","i","v","e">>,
     <<"f","l","u","t","t","e","r">>, <<"s","w","i","f","t">>,
     <<"k","o","t","l","i","n">>,
     <<"m","a","c","h","i","n","e"," ","l","e","a","r","n","i","n","g">>,
     <<"m","l">>, <<"a","i">>,
     <<"a","r","t","i","f","i","c","i","a","l"," ","i","n","t","e","l","l","i","g","e","n","c","e">>,
     <<"d","a","t","a"," ","s","c","i","e","n","c","e">>,
     <<"p","a","n","d","a","s">>, <<"n","u","m","p","y">>,
     <<"t","e","n","s","o","r","f","l","o","w">>,
     <<"p","y","t","o","r","c","h">>,
     <<"s","c","i","k","i","t","-","l","e","a","r","n">>,
     <<"k","e","r","a","s">>, <<"g","i","t">>, <<"g","i","t","h","u","b">>,
     <<"g","i","t","l","a","b">>, <<"j","e","n","k","i","n","s">>,
     <<"c","i","/","c","d">>, <<"d","e","v","o","p","s">>,
     <<"a","g","i","l","e">>, <<"s","c","r","u","m">>, <<"j","i","r","a">>,
     <<"c","o","n","f","l","u","e","n","c","e">> >>

\* _extract_skills_from_text
_extract_skills_from_text(text) ==
  IF text = <<>> THEN {}
  ELSE {TECH_SKILLS[i] : i \in {n \in 1..Len(TECH_SKILLS) :
                                   Contains(Lower(text), TECH_SKILLS[n])}}

\* the words _normalize_skill removes, in the order of the replace calls
SKILL_AFFIXES ==
  << <<"p","r","o","g","r","a","m","m","i","n","g">>,
     <<"d","e","v","e","l","o","p","m","e","n","t">>,
     <<"d","e","v","e","l","o","p","e","r">>,
     <<"e","x","p","e","r","i","e","n","c","e">>,
     <<"k","n","o","w","l","e","d","g","e">>, <<"s","k","i","l","l">> >>

RECURSIVE RemoveAffixes(_, _)
RemoveAffixes(skill, affixes) ==
  IF affixes = <<>> THEN skill
  ELSE RemoveAffixes(ReplaceAll(skill, Head(affixes), <<>>), Tail(affixes))

\* _normalize_skill
_normalize_skill(skill) ==
  Strip(RemoveAffixes(Strip(Lower(skill), Whitespace), SKILL_AFFIXES),
        Whitespace)

\* aliases.get(norm, norm) of _fuzzy_skill_match
SkillAlias(norm) ==
  IF norm = <<"j","s">> THEN <<"j","a","v","a","s","c","r","i","p","t">>
  ELSE IF norm = <<"n","o","d","e","j","s">> THEN <<"n","o","d","e",".","j","s">>
  ELSE IF norm = <<"m","l">> THEN <<"m","a","c","h","i","n","e"," ","l","e","a","r","n","i","n","g">>
  ELSE IF norm = <<"a","i">> THEN <<"a","r","t","i","f","i","c","i","a","l"," ","i","n","t","e","l","l","i","g","e","n","c","e">>
  ELSE IF norm = <<"k","8","s">> THEN <<"k","u","b","e","r","n","e","t","e","s">>
  ELSE IF norm = <<"p","o","s","t","g","r","e","s">> THEN <<"p","o","s","t","g","r","e","s","q","l">>
  ELSE IF norm = <<"m","o","n","g","o">> THEN <<"m","o","n","g","o","d","b">>
  ELSE norm

\* _fuzzy_skill_match
_fuzzy_skill_match(resume_skill, job_skill) ==
  LET resume_norm == _normalize_skill(resume_skill)
      job_norm == _normalize_skill(job_skill)
      resume_alias == SkillAlias(resume_norm)
      job_alias == SkillAlias(job_norm)
  IN  \/ resume_norm = job_norm
      \/ Contains(job_norm, resume_norm) \/ Contains(resume_norm, job_norm)
      \/ resume_alias = job_alias
      \/ Contains(job_alias, resume_alias)
      \/ Contains(resume_alias, job_alias)

\* set(s.lower().strip() for s in skills)
SkillSet(skills) ==
  {Strip(Lower(skills[i]), Whitespace) : i \in 1..Len(skills)}

\* total_matches of _calculate_skill_match: the exact matches and the
\* resume skills left that match a job skill left
TotalMatches(resume_skills, job_skills) ==
  Cardinality(resume_skills \cap job_skills)
    + Cardinality({r \in resume_skills \ job_skills :
         \E j \in job_skills \ resume_skills : _fuzzy_skill_match(r, j)})

\* a score sub-score: the fraction num / den of 100
Fraction(num, den) == [num |-> num, den |-> den]

\* _calculate_skill_match: min(total_matches / total * 100, 100.0)
_calculate_skill_match(resume_skills, job_skills) ==
  IF job_skills = {} \/ resume_skills = {} THEN Fraction(0, 1)
  ELSE Fraction(Min2(TotalMatches(resume_skills, job_skills),
                     Cardinality(job_skills)),
                Cardinality(job_skills))

\* _calculate_keyword_match: found_keywords / len(resume_keywords) * 100
_calculate_keyword_match(resume_keywords, job_description) ==
  IF resume_keywords = {} \/ job_description = <<>> THEN Fraction(0, 1)
  ELSE Fraction(Cardinality({kw \in resume_keywords :
                               Contains(job_description, kw)}),
                Cardinality(resume_keywords))

\* the values cosine_similarity * 100 takes in the model
Similarities == {0, 7, 60, 100}

\* the resume profiles of the model
MatchResumes ==
  { [skills |-> << <<"P","y","t","h","o","n"," ">>, <<"J","S">> >>, keywords |-> << <<"a","p","i">> >>,
     professional_summary |-> <<"e","n","g","i","n","e","e","r">>],
    [skills |-> << <<"c","o","b","o","l">> >>,
     keywords |-> << <<"d","a","t","a">>, <<"c","l","o","u","d">>, <<"m","o","b","i","l","e">> >>,
     professional_summary |-> <<"s","e","n","i","o","r"," ","e","n","g","i","n","e","e","r">>],
    [skills |-> << >>, keywords |-> << >>, professional_summary |-> << >>] }

\* the jobs of the model: a job with required skills, one whose skills come
\* from its text, one that shares nothing with the second resume but words
\* of its text, and a search redirect of create_naukri_search_jobs
MatchJobs ==
  { [name |-> "data-api", title |-> <<"D","e","v">>,
     description |-> <<"b","u","i","l","d"," ","d","a","t","a"," ","a","p","i">>,
     required_skills |-> << <<"P","y","t","h","o","n">>, <<"J","a","v","a","S","c","r","i","p","t"," ">> >>,
     is_search |-> FALSE, source |-> "linkedin", match_score |-> 0],
    [name |-> "react-ui", title |-> <<"R","e","a","c","t"," ","d","e","v">>,
     description |-> <<"c","s","s"," ","u","i">>,
     required_skills |-> << >>,
     is_search |-> FALSE, source |-> "naukri", match_score |-> 0],
    [name |-> "banking", title |-> <<"E","n","g","i","n","e","e","r">>,
     description |-> <<"s","e","n","i","o","r"," ","e","n","g","i","n","e","e","r">>,
     required_skills |-> << <<"j","a","v","a">> >>,
     is_search |-> FALSE, source |-> "internshala", match_score |-> 0],
    [name |-> "search", title |-> <<"P","y","t","h","o","n"," ","D","e","v","e","l","o","p","e","r">>,
     description |-> <<"S","e","a","r","c","h">>,
     required_skills |-> << <<"p","y","t","h","o","n">> >>,
     is_search |-> TRUE, source |-> "naukri_search", match_score |-> 100] }

\* the resume and the listing of the scenario: skills python and react
\* against the required skills python and sql
ScenarioResume ==
  [skills |-> << <<"p","y","t","h","o","n">>, <<"r","e","a","c","t">> >>, keywords |-> << >>,
   professional_summary |-> << >>]

ScenarioJob ==
  [name |-> "python-sql", title |-> <<"A","n","a","l","y","s","t">>,
   description |-> <<"r","e","p","o","r","t","s">>,
   required_skills |-> << <<"p","y","t","h","o","n">>, <<"s","q","l">> >>,
   is_search |-> FALSE, source |-> "linkedin", match_score |-> 0]

\* top_n: None or a number
NoTopN == [given |-> FALSE, n |-> 0]
TopN(n) == [given |-> TRUE, n |-> n]

\* the values of top_n
TopNs == {NoTopN} \cup {TopN(n) : n \in {-1, 0, 1, 2, 200}}

\* job_skills of match_jobs: required_skills, or the skills found in the
\* title and the description
JobSkills(job) ==
  IF SkillSet(job.required_skills) # {}
  THEN SkillSet(job.required_skills)
  ELSE _extract_skills_from_text(job.title \o <<" ">> \o job.description)

\* the values _calculate_cosine_similarity can return: 0.0
\* when one of the two texts is blank
CosineScores(resume_data, job) ==
  IF (resume_data.skills = <<>> /\ resume_data.professional_summary = <<>>)
     \/ (job.description = <<>> /\ job.required_skills = <<>>)
  THEN {0} ELSE Similarities

\* the three sub-scores of a job, and its matched skills
SubScores(resume_data, job) ==
  [skill |-> _calculate_skill_match(SkillSet(resume_data.skills),
                                    JobSkills(job)),
   keyword |-> _calculate_keyword_match(SkillSet(resume_data.keywords),
                                        Lower(job.description)),
   matched_skills |-> SkillSet(resume_data.skills) \cap JobSkills(job),
   missing_skills |-> JobSkills(job) \ SkillSet(resume_data.skills),
   job_skills |-> JobSkills(job)]

\* SubScores of every resume and job of the model, evaluated once
SubScoresOf ==
  [resume_data \in MatchResumes \cup {ScenarioResume} |->
     [job \in MatchJobs \cup {ScenarioJob} |-> SubScores(resume_data, job)]]

\* base_score, in units: 0.6, 0.25 and 0.15 of the three sub-scores
base_score(skill, keyword, cosine) ==
  (ScoreUnit *
     (60 * 100 * skill.num * keyword.den
        + 25 * 100 * keyword.num * skill.den
        + 15 * cosine * skill.den * keyword.den))
    \div (100 * skill.den * keyword.den)

\* final_score without the minimum of 10
final_score_NoFloor(skill, keyword, base) == Min2(base, 100 * ScoreUnit)

\* final_score, in units: the minimum of 10 when a sub-score is positive,
\* then the cap at 100
final_score(skill, keyword, base) ==
  Min2(IF skill.num > 0 \/ keyword.num > 0
       THEN Max2(base, 10 * ScoreUnit) ELSE base,
       100 * ScoreUnit)

\* match_score = max(int(final_score), 0)
match_score(final) == Max2(final \div ScoreUnit, 0)

\* variant: the labels of the two lowest buckets are exchanged
_generate_match_reason_Swapped(matched_skills, job_skills) ==
  LET matched_count == Cardinality(matched_skills)
      total_count == Cardinality(job_skills)
      match_percent ==
        IF total_count > 0 THEN (matched_count * 100) \div total_count ELSE 0
  IN  IF matched_count = 0 THEN "No skills match found"
      ELSE IF match_percent >= 80 THEN "Excellent match"
      ELSE IF match_percent >= 60 THEN "Strong match"
      ELSE IF match_percent >= 40 THEN "Partial match"
      ELSE "Moderate match"

\* the first branch of _generate_match_reason, and the bucket of the others
_generate_match_reason(matched_skills, job_skills) ==
  LET matched_count == Cardinality(matched_skills)
      total_count == Cardinality(job_skills)
      match_percent ==
        IF total_count > 0 THEN (matched_count * 100) \div total_count ELSE 0
  IN  IF matched_count = 0 THEN "No skills match found"
      ELSE IF match_percent >= 80 THEN "Excellent match"
      ELSE IF match_percent >= 60 THEN "Strong match"
      ELSE IF match_percent >= 40 THEN "Moderate match"
      ELSE "Partial match"

\* the entry match_jobs appends to scored_jobs for the job at position pos,
\* given the similarity and the rounding of the floating-point sum
ScoredJob(resume_data, job, pos, cosine, rounding) ==
  LET sub == SubScoresOf[resume_data][job]
      exact == base_score(sub.skill, sub.keyword, cosine)
      base == IF exact = 0 THEN 0 ELSE exact + rounding
  IN  [name |-> job.name, pos |-> pos, scored |-> TRUE,
       skill |-> sub.skill, keyword |-> sub.keyword, base |-> base,
       matched_skills |-> sub.matched_skills,
       missing_skills |-> sub.missing_skills,
       match_score |-> match_score(final_score(sub.skill, sub.keyword, base)),
       match_reason |->
         _generate_match_reason(sub.matched_skills, sub.job_skills)]

\* a search redirect, appended as it is
PassedJob(job, pos) ==
  [name |-> job.name, pos |-> pos, scored |-> FALSE,
   skill |-> Fraction(0, 1), keyword |-> Fraction(0, 1), base |-> 0,
   matched_skills |-> {}, missing_skills |-> {},
   match_score |-> job.match_score, match_reason |-> "Perfect match"]

RECURSIVE InsertByScore(_, _)
\* x put into a list sorted by match_score descending, behind the elements
\* of the same score
InsertByScore(sorted, x) ==
  IF sorted = <<>> THEN <<x>>
  ELSE IF Head(sorted).match_score >= x.match_score
  THEN <<Head(sorted)>> \o InsertByScore(Tail(sorted), x)
  ELSE <<x>> \o sorted

RECURSIVE SortByScore(_, _)
\* scored_jobs.sort(key=match_score, reverse=True), which is stable
SortByScore(scored_jobs, sorted) ==
  IF scored_jobs = <<>> THEN sorted
  ELSE SortByScore(Tail(scored_jobs), InsertByScore(sorted, Head(scored_jobs)))

\* the slice without the test of top_n
TopSlice_Always(scored_jobs, top_n) ==
  IF ~top_n.given THEN scored_jobs
  ELSE SubSeq(scored_jobs, 1, Min2(Max2(top_n.n, 0), Len(scored_jobs)))

\* lines 699-701
TopSlice(scored_jobs, top_n) ==
  IF ~top_n.given THEN scored_jobs
  ELSE IF top_n.n <= 0 THEN scored_jobs
  ELSE SubSeq(scored_jobs, 1, Min2(top_n.n, Len(scored_jobs)))

\* no call of match_jobs
IdleMatch ==
  [pc |-> "idle", resume_data |-> CHOOSE r \in MatchResumes : r.skills = <<>>,
   jobs |-> <<>>, top_n |-> NoTopN, scored_jobs |-> <<>>, result |-> <<>>]

MatchInit == mt = IdleMatch

\* match_jobs(resume_data, jobs, use_llm_ranking=False, top_n): an empty
\* list of jobs is answered at once
match_jobs(resume_data, job_list, top_n) ==
  /\ mt.pc = "idle"
  /\ mt' = [IdleMatch EXCEPT
       !.pc = IF job_list = <<>> THEN "returned" ELSE "scoring",
       !.resume_data = resume_data, !.jobs = job_list, !.top_n = top_n]
  /\ UNCHANGED outsideMatch

\* one turn of the loop over jobs, lines 627-694
score_job(cosine, rounding) ==
  /\ mt.pc = "scoring"
  /\ Len(mt.scored_jobs) < Len(mt.jobs)
  /\ LET pos == Len(mt.scored_jobs) + 1
         job == mt.jobs[pos]
     IN  IF job.is_search /\ job.source = "naukri_search"
         THEN /\ cosine = 0 /\ rounding = 0
              /\ mt' = [mt EXCEPT
                   !.scored_jobs = Append(@, PassedJob(job, pos))]
         ELSE /\ cosine \in CosineScores(mt.resume_data, job)
              /\ mt' = [mt EXCEPT
                   !.scored_jobs =
                      Append(@, ScoredJob(mt.resume_data, job, pos, cosine,
                                          rounding))]
  /\ UNCHANGED outsideMatch

\* the sort and the slice, lines 696-701
rank_and_return ==
  /\ mt.pc = "scoring"
  /\ Len(mt.scored_jobs) = Len(mt.jobs)
  /\ mt' = [mt EXCEPT
       !.pc = "returned",
       !.scored_jobs = SortByScore(@, <<>>),
       !.result = TopSlice(SortByScore(mt.scored_jobs, <<>>), mt.top_n)]
  /\ UNCHANGED outsideMatch

MatchNext ==
  \/ /\ mt.pc = "idle"
     /\ \E resume_data \in MatchResumes,
           job_list \in ListsUpTo(MatchJobs, MaxMatchJobs),
           top_n \in TopNs :
          match_jobs(resume_data, job_list, top_n)
  \/ /\ mt.pc = "scoring"
     /\ \E cosine \in Similarities, rounding \in {-1, 0, 1} :
          score_job(cosine, rounding)
  \/ rank_and_return

\* the lists of the scenario hold at most this many jobs
MaxScenarioJobs == 2

\* match_jobs called with the scenario resume and listing among the others
ScenarioNext ==
  \/ /\ mt.pc = "idle"
     /\ \E resume_data \in MatchResumes \cup {ScenarioResume},
           job_list \in ListsUpTo(MatchJobs \cup {ScenarioJob},
                                  MaxScenarioJobs),
           top_n \in {NoTopN, TopN(1)} :
          match_jobs(resume_data, job_list, top_n)
  \/ /\ mt.pc = "scoring"
     /\ \E cosine \in Similarities, rounding \in {-1, 0, 1} :
          score_job(cosine, rounding)
  \/ rank_and_return

(***************************************************************************)
(* The URL normalizers applied to their own output                         *)
(***************************************************************************)
\* the beginnings, the query fragments and the ends of the values given to
\* the normalizers
UrlHeads ==
  { <<"h","t","t","p","s",":","/","/","a",".","i","o","/">>, <<"h","t","t","p",":","/","/","a",".","i","o","/">>,
    <<"/","/","a",".","i","o","/">>, <<"w","w","w",".","a",".","i","o","/">>, <<"a",".","i","o","/">>, <<>> }
UrlFragments ==
  { <<>>, <<"?","a","m","p",";">>, <<"&","a","m","p",";">>, <<"a","m","p",";">>,
    <<"?","a","a","m","p",";","m","p",";">>, <<"?","x">> }
UrlTails == { <<>>, <<" ">> }
UrlTexts ==
  {h \o f \o t : h \in UrlHeads, f \in UrlFragments, t \in UrlTails}

\* the two normalizers
Normalizers == {"_normalize_http_url", "_normalize_external_url"}

\* the normalizer fn applied to a character string
Normalized(fn, text) ==
  IF fn = "_normalize_http_url" THEN _normalize_http_url(StrValue(text))
  ELSE _normalize_external_url(StrValue(text))

\* nothing normalized
IdleNormalizer ==
  [pc |-> "idle", fn |-> "_normalize_http_url", value |-> <<>>,
   once |-> <<>>, twice |-> <<>>]

NormInit == nz = IdleNormalizer

\* a call of one of the normalizers
normalize_value(fn, text) ==
  /\ nz.pc = "idle"
  /\ nz' = [IdleNormalizer EXCEPT
       !.pc = "once", !.fn = fn, !.value = text,
       !.once = Normalized(fn, text)]
  /\ UNCHANGED outsideNormalizer

\* a call of the same normalizer with the string it returned
normalize_output ==
  /\ nz.pc = "once"
  /\ nz.once # <<>>
  /\ nz' = [nz EXCEPT !.pc = "twice", !.twice = Normalized(nz.fn, nz.once)]
  /\ UNCHANGED outsideNormalizer

NormNext ==
  \/ /\ nz.pc = "idle"
     /\ \E fn \in Normalizers, text \in UrlTexts : normalize_value(fn, text)
  \/ normalize_output

(***************************************************************************)
(* The job cache of the standalone app: _prune_job_cache,                  *)
(* _store_jobs_in_cache and _load_jobs_from_cache                          *)
(***************************************************************************)
_JOB_CACHE_TTL_SECONDS == 1800

\* JOB_CACHE_MAX_ENTRIES as the environment of the model sets it (the
\* default of line 14 is 200)
_JOB_CACHE_MAX_ENTRIES == 2

\* _store_jobs_in_cache is called at most this many times; the cache ids
\* are 1, 2, ... in the order of the calls
MaxStored == 4

\* the clock of the standalone app stops here
MaxCacheTime == 3700

\* the lists of jobs that are stored
CachedJobLists == {<<>>, <<"job">>}

\* the cache without the keys outside keys
RestrictCache(cache, keys) == [k \in keys |-> cache[k]]

\* the first item of sorted(_JOB_CACHE.items(), key=created_at): the
\* sort is stable and the items come in the order of insertion
OldestKey(cache) ==
  CHOOSE k \in DOMAIN cache :
    \A j \in DOMAIN cache :
      \/ cache[k].created_at < cache[j].created_at
      \/ cache[k].created_at = cache[j].created_at /\ k <= j

RECURSIVE PopOldest(_, _)
\* lines 30-36: the first overflow items of the sorted list are popped
PopOldest(cache, overflow) ==
  IF overflow <= 0 THEN cache
  ELSE PopOldest(RestrictCache(cache, DOMAIN cache \ {OldestKey(cache)}),
                 overflow - 1)

\* _prune_job_cache at time t, lines 17-36
_prune_job_cache(cache, t) ==
  LET expired_keys ==
        {key \in DOMAIN cache :
           t - cache[key].created_at > _JOB_CACHE_TTL_SECONDS}
      kept == RestrictCache(cache, DOMAIN cache \ expired_keys)
  IN  IF Cardinality(DOMAIN kept) <= _JOB_CACHE_MAX_ENTRIES THEN kept
      ELSE PopOldest(kept, Cardinality(DOMAIN kept) - _JOB_CACHE_MAX_ENTRIES)

\* the module as imported: an empty _JOB_CACHE
JobCacheInit ==
  jc = [cache |-> << >>, clock |-> 1, next_id |-> 1, call |-> "none",
        cache_id |-> 0, returned |-> << >>, returned_created_at |-> None]

\* _store_jobs_in_cache(jobs), lines 39-46: the prune, then the new entry
_store_jobs_in_cache(job_list) ==
  /\ jc.next_id <= MaxStored
  /\ jc' = [jc EXCEPT
       !.cache = (jc.next_id :> [created_at |-> jc.clock, jobs |-> job_list])
                   @@ _prune_job_cache(jc.cache, jc.clock),
       !.next_id = @ + 1, !.call = "store", !.cache_id = jc.next_id,
       !.returned = << >>, !.returned_created_at = None]
  /\ UNCHANGED outsideJobCache

\* _load_jobs_from_cache(cache_id), lines 49-54; the empty cache_id is 0
_load_jobs_from_cache(cache_id) ==
  /\ LET pruned == IF cache_id = 0 THEN jc.cache
                   ELSE _prune_job_cache(jc.cache, jc.clock)
         hit == cache_id # 0 /\ cache_id \in DOMAIN pruned
     IN  jc' = [jc EXCEPT
           !.cache = pruned, !.call = "load", !.cache_id = cache_id,
           !.returned = IF hit THEN pruned[cache_id].jobs ELSE << >>,
           !.returned_created_at =
              IF hit THEN pruned[cache_id].created_at ELSE None]
  /\ UNCHANGED outsideJobCache

\* time passes between two calls
JobCacheTick(d) ==
  /\ jc.clock + d <= MaxCacheTime
  /\ jc' = [jc EXCEPT !.clock = @ + d, !.call = "none", !.cache_id = 0,
                      !.returned = << >>, !.returned_created_at = None]
  /\ UNCHANGED outsideJobCache

JobCacheNext ==
  \/ \E job_list \in CachedJobLists : _store_jobs_in_cache(job_list)
  \/ \E cache_id \in 0..MaxStored : _load_jobs_from_cache(cache_id)
  \/ \E d \in {_JOB_CACHE_TTL_SECONDS \div 2,
               _JOB_CACHE_TTL_SECONDS \div 2 + 1} : JobCacheTick(d)

JobCacheSpecInit ==
  QueueInit /\ CacheInit /\ cacheFile = NoFile /\ AggInit /\ PipeInit
    /\ RotInit /\ KeyInit /\ MatchInit /\ NormInit /\ SerInit /\ KwInit /\ JobCacheInit

JobCacheSpec == JobCacheSpecInit /\ [][JobCacheNext]_vars

RotationSpecInit ==
  QueueInit /\ CacheInit /\ cacheFile = NoFile /\ AggInit /\ PipeInit
    /\ RotInit /\ KeyInit /\ MatchInit /\ NormInit /\ SerInit /\ KwInit /\ JobCacheInit

RotationSpec == RotationSpecInit /\ [][RotationNext]_vars

KeySpecInit ==
  QueueInit /\ CacheInit /\ cacheFile = NoFile /\ AggInit /\ PipeInit
    /\ RotInit /\ KeyInit /\ MatchInit /\ NormInit /\ SerInit /\ KwInit /\ JobCacheInit

KeySpec == KeySpecInit /\ [][KeyNext]_vars

MatchSpecInit ==
  QueueInit /\ CacheInit /\ cacheFile = NoFile /\ AggInit /\ PipeInit
    /\ RotInit /\ KeyInit /\ MatchInit /\ NormInit /\ SerInit /\ KwInit /\ JobCacheInit

MatchSpec == MatchSpecInit /\ [][MatchNext]_vars

ScenarioSpecInit ==
  QueueInit /\ CacheInit /\ cacheFile = NoFile /\ AggInit /\ PipeInit
    /\ RotInit /\ KeyInit /\ MatchInit /\ NormInit /\ SerInit /\ KwInit /\ JobCacheInit

ScenarioSpec == ScenarioSpecInit /\ [][ScenarioNext]_vars

NormSpecInit ==
  QueueInit /\ CacheInit /\ cacheFile = NoFile /\ AggInit /\ PipeInit
    /\ RotInit /\ KeyInit /\ MatchInit /\ NormInit /\ SerInit /\ KwInit /\ JobCacheInit

NormSpec == NormSpecInit /\ [][NormNext]_vars

KwSpecInit ==
  QueueInit /\ CacheInit /\ cacheFile = NoFile /\ AggInit /\ PipeInit
    /\ RotInit /\ KeyInit /\ MatchInit /\ NormInit /\ SerInit /\ KwInit /\ JobCacheInit

KwSpec == KwSpecInit /\ [][KwNext]_vars

\* the process starts with no call of the aggregator in progress
AggSpecInit ==
  QueueInit /\ CacheInit /\ cacheFile = NoFile /\ AggInit /\ PipeInit
    /\ RotInit /\ KeyInit /\ MatchInit /\ NormInit /\ SerInit /\ KwInit /\ JobCacheInit

AggSpec == AggSpecInit /\ [][AggNext]_vars

\* the process starts with nothing in progress
ListingSpecInit ==
  QueueInit /\ CacheInit /\ cacheFile = NoFile /\ AggInit /\ PipeInit
    /\ RotInit /\ KeyInit /\ MatchInit /\ NormInit /\ SerInit /\ KwInit /\ JobCacheInit

ListingSpec == ListingSpecInit /\ [][ListingNext]_vars

\* the process starts with no queue activity and the cache file left by an
\* earlier run, if any
CacheSpecInit ==
  QueueInit /\ CacheInit /\ AggInit /\ PipeInit /\ RotInit /\ KeyInit
    /\ MatchInit /\ NormInit /\ SerInit /\ KwInit /\ JobCacheInit

CacheSpec == CacheSpecInit /\ [][CacheNext]_vars

\* the operations of the queue, for the callers in users passing the inputs
\* in inputs, while uuid4 hands out at most maxJobs ids
QueueOps(users, inputs, maxJobs) ==
  \/ \E u \in users, inp \in inputs :
       enqueue(u, inp) /\ nextId' <= maxJobs + 1
  \/ \E id \in JobIds : enqueue_put(id)
  \/ \E id \in JobIds, u \in UserIds : get_job(id, u)
  \/ \E id \in JobIds, u \in UserIds : cancel_job(id, u)
  \/ worker_get
  \/ \E id \in JobIds : process_job_begin(id)
  \/ \E id \in JobIds, recs \in RecLists : process_job_returns(id, recs)
  \/ \E id \in JobIds, msg \in ExcMessages : process_job_raises(id, msg)

QueueNext == QueueOps(UserIds, Inputs, MaxJobs) \/ Tick(TickSteps)

\* the process starts with an empty queue and no cache file
Init ==
  QueueInit /\ CacheInit /\ cacheFile = NoFile /\ AggInit /\ PipeInit
    /\ RotInit /\ KeyInit /\ MatchInit /\ NormInit /\ SerInit /\ KwInit /\ JobCacheInit

Spec == Init /\ [][QueueNext]_vars

\* one owner submits every input, up to MaxOwnerJobs jobs
OwnerNext ==
  QueueOps({"int:1"}, Inputs, MaxOwnerJobs) \/ Tick({JOB_TTL_SECONDS + 1})

OwnerSpec == Init /\ [][OwnerNext]_vars

\* two owners submit one input each, up to MaxLiveJobs jobs: more jobs than
\* workers
LiveInputs == {inp \in Inputs : inp.location = <<"G","o","a">>}

LiveNext ==
  QueueOps({"int:1", "int:2"}, LiveInputs, MaxLiveJobs)
    \/ Tick({JOB_TTL_SECONDS + 1})

\* the call of get_recommendations by the worker that runs job id ends
process_job_ends(id) ==
  \/ \E recs \in RecLists : process_job_returns(id, recs)
  \/ \E msg \in ExcMessages : process_job_raises(id, msg)

\* every thread that can take its next step eventually takes it, and every
\* call of get_recommendations returns or raises
LiveFairness ==
  /\ WF_vars(worker_get)
  /\ \A id \in JobIds :
       /\ WF_vars(enqueue_put(id))
       /\ WF_vars(process_job_begin(id))
       /\ WF_vars(process_job_ends(id))

LiveSpec == Init /\ [][LiveNext]_vars /\ LiveFairness

\* one owner submits, polls and cancels; every job that runs succeeds with
\* no recommendation or fails
RetryNext ==
  \/ \E inp \in Inputs : enqueue("int:1", inp) /\ nextId' <= MaxRetryJobs + 1
  \/ \E id \in JobIds : enqueue_put(id)
  \/ \E id \in JobIds : get_job(id, "int:1")
  \/ \E id \in JobIds : cancel_job(id, "int:1")
  \/ worker_get
  \/ \E id \in JobIds : process_job_begin(id)
  \/ \E id \in JobIds : process_job_returns(id, <<>>)
  \/ \E id \in JobIds : process_job_raises(id, "boom")
  \/ Tick({JOB_TTL_SECONDS + 1})

RetrySpec == Init /\ [][RetryNext]_vars

\* two owners submit and poll, while a thread serializes one job at a time
PollNext ==
  \/ QueueOps({"int:1", "int:2"}, LiveInputs, MaxPollJobs)
  \/ Tick({JOB_TTL_SECONDS + 1})
  \/ SerializerNext

PollSpec == Init /\ [][PollNext]_vars

\* the owner of the race submits at most this many jobs
MaxRaceJobs == 2

\* one owner submits and polls while the worker writes the outcome of a job
\* field by field under _jobs_lock and a thread that does not take the lock
\* serializes the job
RaceNext ==
  \/ /\ ~StoreLockHeld
     /\ \E inp \in LiveInputs :
          enqueue("int:1", inp) /\ nextId' <= MaxRaceJobs + 1
  \/ \E id \in JobIds : enqueue_put(id)
  \/ ~StoreLockHeld /\ \E id \in JobIds : get_job(id, "int:1")
  \/ ~StoreLockHeld /\ \E id \in JobIds : cancel_job(id, "int:1")
  \/ worker_get
  \/ ~StoreLockHeld /\ \E id \in JobIds : process_job_begin(id)
  \/ \E id \in JobIds, recs \in RecLists :
       process_job_store_status(id, "", recs)
  \/ \E id \in JobIds, msg \in ExcMessages :
       process_job_store_status(id, msg, <<>>)
  \/ \E id \in JobIds : process_job_store_result(id)
  \/ \E id \in JobIds : process_job_store_completed(id)
  \/ Tick({JOB_TTL_SECONDS + 1})
  \/ SerializerNext

RaceSpec == Init /\ [][RaceNext]_vars

(***************************************************************************)
(* Properties of the recommendation queue                                  *)
(***************************************************************************)
Owners == {Str(u) : u \in UserIds}

ActiveJobs(js) == {id \in DOMAIN js : js[id].status \in Active}

\* C1: in every reachable state, the jobs map holds at most one queued or
\* running job for any pair (str(user_id), payload_hash).
C1_OneActiveJobPerOwnerAndHash ==
  \A a \in ActiveJobs(jobs), b \in ActiveJobs(jobs) :
    ( /\ Str(jobs[a].user_id) = Str(jobs[b].user_id)
      /\ jobs[a].payload_hash = jobs[b].payload_hash ) => a = b

\* C1 witness: the owner "1" submitted the same inputs as int 1 and as
\* str "1", from two raw locations that sanitize alike; one job exists for
\* them next to a second active job of the same owner.
C1_Witness ==
  /\ Cardinality(ActiveJobs(jobs)) = 2
  /\ \A id \in DOMAIN jobs : Str(jobs[id].user_id) = "1"
  /\ \E a \in ActiveJobs(jobs), b \in ActiveJobs(jobs) :
       jobs[a].payload_hash # jobs[b].payload_hash

AllowedTransitions ==
  { <<"queued", "running">>, <<"queued", "cancelled">>,
    <<"running", "succeeded">>, <<"running", "failed">> }

\* C2: a job's status changes only along queued -> running,
\* queued -> cancelled, running -> succeeded, running -> failed.
C2_StatusTransitions ==
  [][ \A id \in DOMAIN jobs \cap DOMAIN jobs' :
        jobs'[id].status # jobs[id].status
          => <<jobs[id].status, jobs'[id].status>> \in AllowedTransitions ]_qvars

\* C2 witness: one job went queued -> running -> failed while another went
\* queued -> cancelled.
C2_Witness ==
  \E a \in DOMAIN jobs, b \in DOMAIN jobs :
    /\ jobs[a].status = "failed" /\ jobs[a].started_at # None
    /\ jobs[b].status = "cancelled"

ActiveJobsOf(js, owner) ==
  {id \in ActiveJobs(js) : Str(js[id].user_id) = owner}

\* the jobs of js submitted by the owner of user_id with the inputs inp
JobsFor(js, user_id, inp) ==
  { id \in DOMAIN js :
      /\ Str(js[id].user_id) = Str(user_id)
      /\ js[id].payload_hash = _hash_payload(user_id, inp) }

\* the enqueue call whose locked section has the result out returns the
\* active job d with created=False and adds no entry to the jobs map
DuplicateIsReturned(d, out) ==
  /\ out.result = "duplicate"
  /\ out.job_id = d
  /\ DOMAIN out.jobs \subseteq DOMAIN jobs

RECURSIVE Occurrences(_, _)
\* how often x occurs in the sequence q
Occurrences(q, x) ==
  IF q = <<>> THEN 0
  ELSE (IF Head(q) = x THEN 1 ELSE 0) + Occurrences(Tail(q), x)

\* how often the id of a job is on its way to a worker: about to be put on
\* the work queue, on the work queue, or taken off it and not yet looked at
Deliveries(id) ==
  Occurrences(queue, id)
    + (IF id \in putPending THEN 1 ELSE 0)
    + (IF Worker("process", id) \in wk THEN 1 ELSE 0)

\* the enqueue calls that returned a duplicate put nothing on the work
\* queue: the id of a queued job is on its way to a worker exactly once
NothingPutTwice ==
  \A id \in DOMAIN jobs : jobs[id].status = "queued" => Deliveries(id) = 1

\* the enqueue call with the result out creates a job with a new job_id
NewJobIsCreated(out) ==
  /\ out.result = "created"
  /\ out.job_id \notin DOMAIN jobs
  /\ out.job_id \in DOMAIN out.jobs
  /\ out.jobs[out.job_id].status = "queued"

\* the enqueue call with the result out raises and creates nothing
CapacityErrorIsRaised(out) ==
  /\ out.result = "RuntimeError"
  /\ DOMAIN out.jobs \subseteq DOMAIN jobs

\* the job of u's owner with the inputs inp reached a terminal state, and no
\* job of that owner and those inputs is active
TerminalOnly(u, inp) ==
  /\ JobsFor(jobs, u, inp) # {}
  /\ JobsFor(jobs, u, inp) \cap ActiveJobs(jobs) = {}

C3_Claimed(u, inp, out) ==
  /\ \A d \in JobsFor(jobs, u, inp) \cap ActiveJobs(jobs) :
       DuplicateIsReturned(d, out)
  /\ TerminalOnly(u, inp) => NewJobIsCreated(out)

C3_Amended(u, inp, out) ==
  /\ \A d \in JobsFor(jobs, u, inp) \cap ActiveJobs(jobs) :
       DuplicateIsReturned(d, out)
  /\ TerminalOnly(u, inp) =>
       IF Cardinality(ActiveJobsOf(jobs, Str(u))) < MAX_ACTIVE_JOBS_PER_USER
       THEN NewJobIsCreated(out)
       ELSE CapacityErrorIsRaised(out)

\* C3 as claimed: an enqueue with the inputs of an active job of the same
\* owner returns that job with created=False and creates nothing; an enqueue
\* with the inputs of a job of the same owner that reached a terminal state
\* (and of no active job) creates a new job with a different job_id.
C3_AsClaimed ==
  /\ NothingPutTwice
  /\ \A u \in UserIds, inp \in Inputs :
       C3_Claimed(u, inp, enqueue_locked(jobs, now, nextId, u, inp))

\* C3 amended: as claimed, except that the enqueue issued after the job
\* reached a terminal state creates the new job only while the owner has
\* fewer than MAX_ACTIVE_JOBS_PER_USER active jobs; when the owner has that
\* many it raises the capacity error and creates nothing.
C3_DedupWhileActive ==
  /\ NothingPutTwice
  /\ \A u \in UserIds, inp \in Inputs :
       C3_Amended(u, inp, enqueue_locked(jobs, now, nextId, u, inp))

\* C3 witness: two jobs of one owner with the same payload hash, the earlier
\* one terminal and the later one active (a resubmission after completion),
\* next to a second active job of that owner.
C3_Witness ==
  \E a \in DOMAIN jobs, b \in DOMAIN jobs :
    /\ a < b
    /\ Str(jobs[a].user_id) = Str(jobs[b].user_id)
    /\ jobs[a].payload_hash = jobs[b].payload_hash
    /\ jobs[a].status \in Terminal
    /\ jobs[b].status \in Active
    /\ Cardinality(ActiveJobsOf(jobs, Str(jobs[b].user_id))) = 2

\* C4: an enqueue of a non-duplicate payload succeeds while its owner has
\* fewer than MAX_ACTIVE_JOBS_PER_USER active jobs and raises RuntimeError
\* when the owner has that many; no owner ever has more active jobs.
C4_CapEnforced ==
  /\ \A o \in Owners :
       Cardinality(ActiveJobsOf(jobs, o)) <= MAX_ACTIVE_JOBS_PER_USER
  /\ \A u \in UserIds, inp \in Inputs :
       JobsFor(jobs, u, inp) \cap ActiveJobs(jobs) = {}
         => enqueue_locked(jobs, now, nextId, u, inp).result
              = IF Cardinality(ActiveJobsOf(jobs, Str(u))) < MAX_ACTIVE_JOBS_PER_USER
                THEN "created" ELSE "RuntimeError"

\* C4 witness: an owner holds MAX_ACTIVE_JOBS_PER_USER active jobs (the
\* cap-th submission succeeded) and a further input of that owner is not a
\* duplicate of either, so that its submission is the (cap+1)-th.
C4_Witness ==
  \E u \in UserIds, inp \in Inputs :
    /\ Cardinality(ActiveJobsOf(jobs, Str(u))) = MAX_ACTIVE_JOBS_PER_USER
    /\ JobsFor(jobs, u, inp) \cap ActiveJobs(jobs) = {}
    /\ enqueue_locked(jobs, now, nextId, u, inp).result = "RuntimeError"

\* the caller user_id is the owner of the job job_id of the jobs map
IsOwner(job_id, user_id) ==
  job_id \in DOMAIN jobs /\ Str(jobs[job_id].user_id) = Str(user_id)

\* C5: cancel_job by the owner returns True on a queued job and sets status
\* cancelled, completed_at and the error 'Cancelled by user'; on a job in any
\* other status it returns False and changes no field of the job.
C5_CancelOnlyQueued ==
  \A id \in JobIds, u \in UserIds :
    IsOwner(id, u) =>
      LET out == cancel_job_locked(jobs, now, id, u)
      IN  IF jobs[id].status = "queued"
          THEN /\ out.result = TRUE
               /\ out.jobs = [jobs EXCEPT ![id].status = "cancelled",
                                          ![id].completed_at = now,
                                          ![id].error = "Cancelled by user"]
               /\ out.jobs[id].completed_at # None
          ELSE /\ out.result = FALSE
               /\ out.jobs = jobs

\* C5 witness: a job was cancelled while queued, and a running job exists on
\* which cancel_job is refused.
C5_Witness ==
  \E a \in DOMAIN jobs, b \in DOMAIN jobs :
    /\ jobs[a].status = "cancelled"
    /\ jobs[a].error = "Cancelled by user"
    /\ jobs[a].completed_at # None /\ jobs[a].started_at = None
    /\ jobs[b].status = "running"
    /\ ~cancel_job_locked(jobs, now, b, jobs[b].user_id).result

\* C6: for a caller that is not the owner of the job, get_job returns None
\* and cancel_job returns False without changing any job, exactly as for a
\* job id that does not exist, whatever the status of the job.
C6_NonOwnerSeesNothing ==
  \A id \in JobIds, u \in UserIds :
    ~IsOwner(id, u) =>
      /\ get_job_locked(jobs, now, id, u).result = 0
      /\ cancel_job_locked(jobs, now, id, u).result = FALSE
      /\ cancel_job_locked(jobs, now, id, u).jobs = jobs

\* C6 witness: jobs of the owner "1" exist in a queued and in a terminal
\* status, the caller int 2 owns nothing, and the owner's str form gets
\* the job.
C6_Witness ==
  \E a \in DOMAIN jobs, b \in DOMAIN jobs :
    /\ jobs[a].user_id = "int:1" /\ jobs[a].status = "queued"
    /\ Str(jobs[b].user_id) = "1" /\ jobs[b].status \in Terminal
    /\ ~IsOwner(a, "int:2") /\ ~IsOwner(b, "int:2")
    /\ get_job_locked(jobs, now, a, "str:1").result = a

\* C7 as claimed: when get_recommendations raises while a worker processes
\* a job, the job ends failed with the exception text in its error field.
C7_AsClaimed ==
  [][ \A id \in JobIds, msg \in ExcMessages :
        process_job_raises(id, msg)
          => /\ id \in DOMAIN jobs'
             /\ jobs'[id].status = "failed"
             /\ jobs'[id].error = msg ]_qvars

\* C8: under fair scheduling, and when every get_recommendations call returns
\* or raises, every job created by enqueue eventually reaches succeeded,
\* failed or cancelled, also when earlier jobs of the same worker failed.
C8_EveryJobTerminates ==
  \A id \in JobIds :
    (id \in DOMAIN jobs) ~> (id \in DOMAIN jobs /\ jobs[id].status \in Terminal)

\* C8 witness: two jobs failed, and a third job was started later than both
\* had failed, by one of the two workers, and reached a terminal state.
C8_Witness ==
  \E a \in DOMAIN jobs, b \in DOMAIN jobs, c \in DOMAIN jobs :
    /\ a # b
    /\ jobs[a].status = "failed" /\ jobs[b].status = "failed"
    /\ jobs[c].status \in {"succeeded", "failed"}
    /\ jobs[c].started_at > jobs[a].completed_at
    /\ jobs[c].started_at > jobs[b].completed_at

\* C9: a job leaves the jobs map only in an enqueue or get_job call (the
\* callers of the TTL sweep), and only when its status is terminal and more
\* than JOB_TTL_SECONDS have passed since its completed_at.
C9_RemovedOnlyByTtlSweep ==
  [][ \A id \in DOMAIN jobs :
        id \notin DOMAIN jobs'
          => /\ jobs[id].status \in Terminal
             /\ jobs[id].completed_at # None
             /\ now - jobs[id].completed_at > JOB_TTL_SECONDS
             /\ \/ \E u \in UserIds, inp \in Inputs : enqueue(u, inp)
                \/ \E j \in JobIds, u \in UserIds : get_job(j, u) ]_qvars

\* a job that is older than the TTL and still queued or running
OldActiveJob(id) ==
  /\ id \in DOMAIN jobs
  /\ jobs[id].status \in Active
  /\ now - jobs[id].created_at > JOB_TTL_SECONDS

\* C9 witness: a sweep has removed a job (its id was handed out and is gone)
\* while an active job older than the TTL is still in the map.
C9_Witness ==
  /\ \E id \in 1..(nextId - 1) : id \notin DOMAIN jobs
  /\ \E id \in DOMAIN jobs : OldActiveJob(id)

(***************************************************************************)
(* Properties of the result cache                                          *)
(***************************************************************************)
\* C10: a fetch_jobs_from_apify call that finds, under its own cache key, a
\* non-empty entry younger than the fresh window returns that entry's
\* listings unchanged, invokes no Source Adapter and does not write the
\* cache.
C10_FreshEntryIsReturned ==
  \A c \in CallIds :
    calls[c].held =>
      /\ calls[c].pc = "done"
      /\ calls[c].result = calls[c].heldJobs
      /\ ~calls[c].invoked
      /\ ~calls[c].wrote

\* C10 witness: a call returned the fresh entry of its key while the latest
\* entry of the cache belongs to another key and holds other listings.
C10_Witness ==
  \E c \in CallIds :
    /\ calls[c].held /\ calls[c].pc = "done"
    /\ cacheFile.kind = "entries"
    /\ calls[c].key \in DOMAIN cacheFile.entries
    /\ cacheFile.latest_key # calls[c].key
    /\ cacheFile.entries[cacheFile.latest_key].jobs # calls[c].result
    /\ now - cacheFile.entries[calls[c].key].created_at = APIFY_CACHE_FRESH_SECONDS

\* C11: a call returns listings read from an entry older than the fresh
\* window only after its own live aggregation has run and produced nothing;
\* a call whose live aggregation produced listings returns those listings
\* and nothing read from a stale entry.
C11_StaleOnlyAfterEmptyLive ==
  \A c \in CallIds :
    /\ calls[c].stale => calls[c].invoked /\ calls[c].live = <<>>
    /\ (calls[c].pc = "done" /\ calls[c].live # <<>>)
         => calls[c].result = calls[c].live /\ ~calls[c].stale

\* C11 witness: one call returned stale listings after an empty live
\* aggregation and another call for the same query returned its own live
\* listings.
C11_Witness ==
  \E c, d \in CallIds :
    /\ calls[c].pc = "done" /\ calls[c].stale /\ calls[c].invoked
    /\ calls[d].pc = "done" /\ calls[d].live # <<>>
    /\ calls[d].key = calls[c].key
    /\ calls[d].result # calls[c].result

\* a readable document with entries names an existing entry as latest_key
\* and holds no entry with an empty listing list
CacheFileWellFormed(file) ==
  file.kind = "entries" =>
    /\ file.latest_key \in DOMAIN file.entries
    /\ \A k \in DOMAIN file.entries : file.entries[k].jobs # <<>>

\* the json.dump of call c leaves a readable document only with the entry
\* of its key holding exactly its live listings and with latest_key its key
WriteReplacesEntry(c) ==
  (save_dump(c) /\ cacheFile'.kind = "entries") =>
    /\ cacheFile'.latest_key = calls[c].key
    /\ cacheFile'.entries[calls[c].key].jobs = calls[c].live

\* the file changes only in a step of _save_cached_jobs of a call whose
\* live aggregation ran and produced listings
OnlyLiveResultsAreWritten ==
  cacheFile' # cacheFile =>
    \E c \in CallIds :
      /\ save_open(c) \/ save_dump(c)
      /\ calls[c].invoked /\ calls[c].live # <<>>

\* C12: the cache file is changed only by calls whose live aggregation
\* produced a non-empty deduplicated list; the document such a call writes
\* holds, under the query's key, exactly the live listings (nothing of the
\* previous entry) and names that key as latest_key; every readable document
\* has a latest_key that names an existing entry and no entry with an empty
\* listing list; calls that return cached or empty results never write.
C12_CacheWrites ==
  [][ /\ OnlyLiveResultsAreWritten
      /\ \A c \in CallIds : WriteReplacesEntry(c)
      /\ CacheFileWellFormed(cacheFile')
      /\ \A c \in CallIds :
           (calls'[c].pc = "done" /\ calls'[c].live = <<>>) => ~calls'[c].wrote
    ]_vars

\* C12 witness: a call has written its live listings over the entry of its
\* key that another call had read with other listings.
C12_Witness ==
  \E c, d \in CallIds :
    /\ calls[c].pc = "done" /\ calls[c].wrote
    /\ cacheFile.kind = "entries"
    /\ cacheFile.latest_key = calls[c].key
    /\ cacheFile.entries[calls[c].key].jobs = calls[c].live
    /\ calls[d].held /\ calls[d].key = calls[c].key
    /\ calls[d].heldJobs # calls[c].live

(***************************************************************************)
(* Properties of search_all_platforms                                      *)
(***************************************************************************)
\* C13: once wait() has returned, search_all_platforms has not raised; an
\* adapter that raised, or that was still running when wait() returned,
\* has the empty list under its platform name, and an adapter that had
\* returned by then has exactly its own list under its own name.
C13_PartialFailureTolerated ==
  agg.pc \in {"raised", "shutdown", "returned"} =>
    /\ agg.pc # "raised" /\ ~agg.raised
    /\ \A name \in Platforms :
         /\ name \notin agg.done => agg.all_jobs[name] = <<>>
         /\ agg.futures[name].st = "raised" => agg.all_jobs[name] = <<>>
         /\ (name \in agg.done /\ agg.futures[name].st = "returned")
              => agg.all_jobs[name] = agg.futures[name].out

\* C13 witness: the call has returned; one adapter raised, one was still
\* running when wait() returned and produced listings afterwards, and the
\* third had returned listings, which are in the result.
C13_Witness ==
  /\ agg.pc = "returned"
  /\ agg.futures["linkedin"].st = "raised"
  /\ "naukri" \notin agg.done
  /\ agg.futures["naukri"].out = <<"job-1">>
  /\ agg.all_jobs["naukri"] = <<>>
  /\ "internshala" \in agg.done
  /\ agg.all_jobs["internshala"] = <<"job-1", "job-2">>

\* C14 as claimed: after wait() has returned with an adapter still running
\* (the timeout has expired), search_all_platforms can return to its caller
\* at once, whether or not that adapter has finished.
C14_AsClaimed ==
  agg.pc = "shutdown" => ENABLED executor_shutdown

(***************************************************************************)
(* Properties of the listings                                              *)
(***************************************************************************)
\* the normalized URL of a mapped listing in lower case; empty when the URL
\* cannot be normalized
NormalizedLowerUrl(job) == Lower(_normalize_external_url(StrValue(job.url)))

\* two listings count as the same one: equal normalized lowercase URLs, or,
\* when neither has a normalizable URL, equal title, company and source
SameListing(x, y) ==
  IF NormalizedLowerUrl(x) # <<>> \/ NormalizedLowerUrl(y) # <<>>
  THEN NormalizedLowerUrl(x) = NormalizedLowerUrl(y)
  ELSE /\ Lower(Strip(x.title, Whitespace)) = Lower(Strip(y.title, Whitespace))
       /\ Lower(Strip(x.company_name, Whitespace))
            = Lower(Strip(y.company_name, Whitespace))
       /\ Lower(Strip(x.source, Whitespace)) = Lower(Strip(y.source, Whitespace))

\* the positions of all_jobs that hold the first listing of their kind
FirstOccurrences(all_jobs) ==
  {i \in 1..Len(all_jobs) :
     \A j \in 1..(i - 1) : ~SameListing(all_jobs[j], all_jobs[i])}

\* C15: the merged list holds no two listings with equal normalized
\* lowercase URLs (or, without a normalizable URL, with equal title, company
\* and source), whatever their sources; it consists of exactly the first
\* listing of each kind, in the order of collection.
C15_UrlFirstDedup ==
  pipe.pc = "deduped" =>
    /\ \A i, j \in 1..Len(pipe.deduped) :
         i # j => ~SameListing(pipe.deduped[i], pipe.deduped[j])
    /\ Len(pipe.deduped) = Cardinality(FirstOccurrences(pipe.all_jobs))
    /\ \A i \in FirstOccurrences(pipe.all_jobs) :
         pipe.deduped[Cardinality({j \in FirstOccurrences(pipe.all_jobs) : j <= i})]
           = pipe.all_jobs[i]

\* C15 witness: two collected listings of different sources have URLs that
\* are written differently and are equal once normalized and lowercased;
\* the merged list holds the first of them, not the second, and a listing
\* collected after them.
C15_Witness ==
  /\ pipe.pc = "deduped"
  /\ \E i, j \in 1..Len(pipe.all_jobs) :
       /\ i < j
       /\ pipe.all_jobs[i].source # pipe.all_jobs[j].source
       /\ pipe.all_jobs[i].url # pipe.all_jobs[j].url
       /\ SameListing(pipe.all_jobs[i], pipe.all_jobs[j])
       /\ \E k \in 1..Len(pipe.deduped) : pipe.deduped[k] = pipe.all_jobs[i]
       /\ \A k \in 1..Len(pipe.deduped) : pipe.deduped[k] # pipe.all_jobs[j]
       /\ \E k \in 1..Len(pipe.deduped), m \in (j + 1)..Len(pipe.all_jobs) :
            pipe.deduped[k] = pipe.all_jobs[m]

\* an absolute HTTP(S) address
IsHttpUrl(url) == StartsWith(url, HttpPrefix) \/ StartsWith(url, HttpsPrefix)

\* C16: every listing an adapter produces has a link, and every listing
\* fetch_jobs_from_apify maps from adapter output has a url, that is not
\* empty and starts with http:// or https://.
C16_UrlAlwaysAbsolute ==
  /\ pipe.pc \in {"scraped", "mapped", "deduped"} =>
       \A name \in Platforms : \A i \in 1..Len(pipe.scraped_data[name]) :
         /\ pipe.scraped_data[name][i].link # <<>>
         /\ IsHttpUrl(pipe.scraped_data[name][i].link)
  /\ pipe.pc \in {"mapped", "deduped"} =>
       \A i \in 1..Len(pipe.all_jobs) :
         /\ pipe.all_jobs[i].url # <<>>
         /\ IsHttpUrl(pipe.all_jobs[i].url)

\* C16 witness: an item with a title and no link in any field, and an item
\* whose only link is relative to the platform's site, have been made into
\* listings and mapped.
C16_Witness ==
  /\ pipe.pc = "mapped"
  /\ \E i \in 1..Len(pipe.items["naukri"]) :
       /\ pipe.items["naukri"][i].title # <<>>
       /\ pipe.items["naukri"][i].url = NoValue
       /\ pipe.items["naukri"][i].link = NoValue
       /\ pipe.items["naukri"][i].job = NoValue
  /\ \E i \in 1..Len(pipe.items["internshala"]) :
       /\ pipe.items["internshala"][i].link # NoValue
       /\ StartsWith(pipe.items["internshala"][i].link.s, <<"/", "i">>)
  /\ Len(pipe.all_jobs) >= 2

(***************************************************************************)
(* Credential rotation and the adapters                                    *)
(***************************************************************************)
\* _call_actor_with_fallback has returned a run and a client
CallReturned == rot.client # NoClient

\* _call_actor_with_fallback has raised
CallRaised == rot.error # NoError

\* some credential of the pool gets a run from the service
SomeCredentialSucceeds ==
  \E i \in 1..Len(rot.token_pool) :
     rot.backend[rot.token_pool[i]].kind = "run"

\* the position in the pool of the first credential that gets a run
FirstSuccess ==
  CHOOSE i \in 1..Len(rot.token_pool) :
     /\ rot.backend[rot.token_pool[i]].kind = "run"
     /\ \A j \in 1..(i - 1) : rot.backend[rot.token_pool[j]].kind # "run"

\* C17: _call_actor_with_fallback tries the credentials in pool order, each
\* at most once and always with the same actor id and run input; after a
\* failure of credential i, quota error or not, with a later credential in
\* the pool it is at credential i+1; it stops at the first success and
\* returns that run with the client of the same credential; it never
\* raises when some credential of the pool succeeds.
C17_RotationInPoolOrder ==
  LET n == Len(rot.attempts) IN
  /\ n <= Len(rot.token_pool)
  /\ \A i \in 1..n :
       /\ rot.attempts[i].token = rot.token_pool[i]
       /\ rot.attempts[i].actor_id = rot.actor_id
       /\ rot.attempts[i].run_input = rot.run_input
  /\ \A i, j \in 1..n :
       i # j => rot.attempts[i].token # rot.attempts[j].token
  /\ \A i \in 1..(n - 1) : ~rot.attempts[i].ok
  /\ rot.pc = "calling" =>
       /\ rot.idx = n + 1
       /\ rot.idx <= Len(rot.token_pool)
       /\ \A i \in 1..n : ~rot.attempts[i].ok
  /\ CallReturned =>
       /\ n >= 1
       /\ rot.attempts[n].ok
       /\ rot.run.by = rot.attempts[n].token
       /\ rot.client = _get_client(rot.attempts[n].token)
       /\ n = FirstSuccess
  /\ SomeCredentialSucceeds => ~CallRaised

\* the third credential succeeded after a quota error of the first and
\* another error of the second
C17_Witness ==
  /\ CallReturned
  /\ Len(rot.attempts) = 3
  /\ IsLimitOf[rot.attempts[1].error.message]
  /\ ~IsLimitOf[rot.attempts[2].error.message]
  /\ rot.client = _get_client(rot.token_pool[3])

\* C18: _call_actor_with_fallback raises only after every credential of a
\* non-empty pool has been tried and has failed, and then it raises the
\* error of the last credential of the pool; with an empty pool it raises
\* without any call.
C18_RaisesLastErrorWhenExhausted ==
  CallRaised =>
    /\ ~CallReturned
    /\ IF rot.token_pool = <<>>
       THEN rot.attempts = <<>> /\ rot.error = EmptyPoolError
       ELSE /\ Len(rot.attempts) = Len(rot.token_pool)
            /\ \A i \in 1..Len(rot.token_pool) :
                 /\ rot.attempts[i].token = rot.token_pool[i]
                 /\ ~rot.attempts[i].ok
            /\ rot.error = rot.attempts[Len(rot.attempts)].error
            /\ rot.error.by = rot.token_pool[Len(rot.token_pool)]

\* a pool of three credentials is exhausted and the error raised is not
\* the message of the first failure
C18_Witness ==
  /\ CallRaised
  /\ Len(rot.token_pool) = 3
  /\ Len(rot.attempts) = 3
  /\ rot.error.message # rot.attempts[1].error.message
  /\ rot.error = rot.attempts[3].error

\* C19 as stated: an adapter returns the empty list when the service has
\* no result, and hands a failure of _call_actor_with_fallback to its
\* caller as an exception.
C19_AsClaimed ==
  (rot.pc = "done" /\ rot.caller \in Platforms) =>
    /\ CallRaised => rot.adapter.kind = "exception"
    /\ (CallReturned /\ ~rot.run.defaultDatasetId) =>
         rot.adapter = ReturnsList(<<>>)

(***************************************************************************)
(* Cache keys                                                              *)
(***************************************************************************)
\* C20: a query gets the key of its first form after any change of the
\* letter case of a keyword, of the whitespace around a keyword or repeated
\* inside it, after a repeat of a keyword already in the list, after a
\* keyword is added or removed behind sixteen different keywords, and
\* after a change of the location that _sanitize_location takes to the same
\* string, case ignored.
C20_KeyIgnoresForm == ck.pc = "built" => ck.key = ck.first_key

\* a keyword was repeated in a list of sixteen keywords and another one
\* was put behind them
C20_Witness ==
  /\ ck.pc = "built"
  /\ ck.kinds = {"repeat", "beyond"}
  /\ Len(ck.keywords) = 18
  /\ ck.key = ck.first_key
  /\ Len(ck.key[2]) = 16

(***************************************************************************)
(* Scores and ranking                                                      *)
(***************************************************************************)
\* the entries match_jobs has scored so far
ScoredEntries ==
  {mt.scored_jobs[i] : i \in {n \in 1..Len(mt.scored_jobs) :
                                mt.scored_jobs[n].scored}}

\* C21: every job match_jobs scores gets an integer match_score from 0 to
\* 100, at least 10 when its skill or keyword sub-score is positive; the
\* minimum applies to the blend and the cap follows it: a blend below 10
\* with a positive sub-score gives exactly 10, a blend from 10 to 100 gives
\* its integer part, and a blend above 100 gives 100.
C21_ScoreRangeAndFloor ==
  \A e \in ScoredEntries :
    /\ e.match_score \in 0..100
    /\ (e.skill.num > 0 \/ e.keyword.num > 0) =>
         /\ e.match_score >= 10
         /\ e.base < 10 * ScoreUnit => e.match_score = 10
    /\ (e.base >= 10 * ScoreUnit /\ e.base <= 100 * ScoreUnit) =>
         e.match_score = e.base \div ScoreUnit
    /\ e.base > 100 * ScoreUnit => e.match_score = 100

\* a job with a positive keyword sub-score and a blend below 10 was scored
C21_Witness ==
  \E e \in ScoredEntries :
    /\ e.skill.num = 0
    /\ e.keyword.num > 0
    /\ e.base < 10 * ScoreUnit
    /\ e.match_score = 10

\* C22 as stated: a job without skill overlap and without keyword overlap
\* gets match_score 0 and the reason "No skills match found", whatever the
\* similarity.
C22_AsClaimed ==
  \A e \in ScoredEntries :
    (e.skill.num = 0 /\ e.keyword.num = 0) =>
       /\ e.match_score = 0
       /\ e.match_reason = "No skills match found"

\* the positions at which the list x holds its elements in the order of y
IsPrefixOf(x, y) ==
  Len(x) <= Len(y) /\ \A i \in 1..Len(x) : x[i] = y[i]

C24_AsClaimed ==
  /\ (nz.pc # "idle"
        /\ (StartsWith(nz.value, HttpPrefix)
              \/ StartsWith(nz.value, HttpsPrefix))) =>
       nz.once = nz.value
  /\ nz.pc = "twice" => nz.twice = nz.once

(***************************************************************************)
(* Properties of serialize_job                                             *)
(***************************************************************************)
\* C25: whenever serialize_job returns a payload with status "queued" and a
\* queue_position, the position is a 1-based index into the work queue, so
\* it is at least 1, whatever the enqueue of the job and the workers do in
\* between.
C25_AsClaimed ==
  (/\ sz.pc = "returned"
   /\ sz.payload.status = "queued"
   /\ "queue_position" \in DOMAIN sz.payload)
    => sz.payload.queue_position >= 1

\* a worker has taken the id off the work queue
TakenOffQueue(id) ==
  /\ id \notin putPending
  /\ \A i \in 1..Len(queue) : queue[i] # id

\* C26: jobs are taken in the order of their creation (uuid4 hands out the
\* ids 1, 2, ... in the order in which enqueue creates the jobs): no job is
\* running while a job created before it has not been taken off the work
\* queue by a worker.
C26_AsClaimed ==
  \A b \in DOMAIN jobs :
    jobs[b].status = "running" => \A a \in 1..(b - 1) : TakenOffQueue(a)

\* C27: a cancelled job was never started and no worker is calling
\* get_recommendations for it; a worker is inside that call only for a
\* running job; and no step of any thread changes the status or started_at
\* of a cancelled job or puts a worker into the call for it (the worker that
\* pops its id returns at once).
C27_CancelledNeverRuns ==
  [][ \A id \in DOMAIN jobs :
        /\ jobs[id].status = "cancelled"
             => /\ jobs[id].started_at = None
                /\ Worker("call", id) \notin wk
                /\ Worker("call", id) \notin wk'
                /\ id \in DOMAIN jobs'
                     => /\ jobs'[id].status = "cancelled"
                        /\ jobs'[id].started_at = None
        /\ Worker("call", id) \in wk => jobs[id].status = "running" ]_qvars

\* C27 witness: a worker has popped the id of a cancelled job and has gone
\* back to the work queue (no worker holds the id any more), and has then
\* run another job to its end.
C27_Witness ==
  \E a \in DOMAIN jobs, b \in DOMAIN jobs :
    /\ jobs[a].status = "cancelled"
    /\ TakenOffQueue(a)
    /\ \A w \in wk : w.job_id # a
    /\ jobs[b].status = "succeeded"
    /\ jobs[b].started_at >= jobs[a].completed_at
    /\ a < b

\* C28: when the enqueue of a submission is rejected with RuntimeError, the
\* call adds no job to the map, hands out no id, puts and schedules nothing
\* on the work queue and leaves every active job as it was; and as soon as
\* a step has made one of the owner's active jobs terminal, the enqueue of
\* the same submission creates a job.
C28_RejectionAndRetry ==
  [][ \A u \in {"int:1"}, inp \in Inputs :
        enqueue_locked(jobs, now, nextId, u, inp).result = "RuntimeError"
          => /\ enqueue(u, inp)
                  => /\ DOMAIN jobs' \subseteq DOMAIN jobs
                     /\ queue' = queue /\ putPending' = putPending
                     /\ nextId' = nextId
                     /\ \A id \in ActiveJobs(jobs) :
                          id \in DOMAIN jobs' /\ jobs'[id] = jobs[id]
             /\ (\E id \in ActiveJobsOf(jobs, Str(u)) :
                   id \in DOMAIN jobs' /\ jobs'[id].status \in Terminal)
                  => enqueue_locked(jobs', now', nextId', u, inp).result
                       = "created" ]_qvars

\* C28 witness: the owner's first job ended, a later job was created at or
\* after that end next to a job that was active before it (so that the
\* submission of the later job was rejected until then), and the next
\* submission is rejected again.
C28_Witness ==
  \E a \in DOMAIN jobs, b \in DOMAIN jobs, c \in DOMAIN jobs :
    /\ a < b /\ b < c
    /\ jobs[a].status \in Terminal
    /\ jobs[b].status \in Active /\ jobs[c].status \in Active
    /\ jobs[b].created_at < jobs[a].completed_at
    /\ jobs[c].created_at >= jobs[a].completed_at
    /\ \E inp \in Inputs :
         enqueue_locked(jobs, now, nextId, jobs[a].user_id, inp).result
           = "RuntimeError"

\* the terminal jobs of js whose completed_at is more than JOB_TTL_SECONDS
\* before t
ExpiredTerminal(js, t) ==
  { id \in DOMAIN js :
      /\ js[id].status \in Terminal
      /\ js[id].completed_at # None
      /\ t - js[id].completed_at > JOB_TTL_SECONDS }

\* C29: whenever it is called, the locked section of enqueue and of get_job
\* leaves a jobs map without any terminal job that completed more than
\* JOB_TTL_SECONDS ago; the locked sections of cancel_job and of
\* _process_job leave the set of jobs as it is, and no step of
\* serialize_job changes the jobs map.
C29_SweepInEnqueueAndGetJob ==
  /\ [](/\ \A u \in UserIds, inp \in Inputs :
             ExpiredTerminal(enqueue_locked(jobs, now, nextId, u, inp).jobs,
                             now) = {}
        /\ \A id \in JobIds, u \in UserIds :
             /\ ExpiredTerminal(get_job_locked(jobs, now, id, u).jobs, now) = {}
             /\ DOMAIN cancel_job_locked(jobs, now, id, u).jobs = DOMAIN jobs
        /\ \A id \in JobIds :
             /\ DOMAIN process_job_take(jobs, now, id).jobs = DOMAIN jobs
             /\ \A msg \in ExcMessages, recs \in RecLists :
                  DOMAIN process_job_store(jobs, now, id, msg, recs)
                    = DOMAIN jobs)
  /\ [][sz' # sz => jobs' = jobs]_vars

\* C29 witness: a sweep has removed an expired job (its id was handed out
\* and is gone) and has left a terminal job that is not expired, and a
\* serialize_job call has returned.
C29_Witness ==
  /\ \E id \in 1..(nextId - 1) : id \notin DOMAIN jobs
  /\ \E id \in DOMAIN jobs :
       jobs[id].status \in Terminal /\ id \notin ExpiredTerminal(jobs, now)
  /\ sz.pc = "returned"

\* C30: a call starts by returning nothing that is cached under another
\* key: when the cache document holds entries but none under the key of
\* the call's query, the call goes on to the live aggregation without a
\* result, so that the latest entry is read only by the last resort after
\* an empty live aggregation.
C30_AsClaimed ==
  [][ \A c \in CallIds :
        (/\ calls[c].pc = "idle" /\ calls'[c].pc # "idle"
         /\ cacheFile.kind = "entries"
         /\ calls'[c].key \notin DOMAIN cacheFile.entries)
          => /\ calls'[c].pc = "live"
             /\ calls'[c].result = <<>>
             /\ ~calls'[c].invoked ]_vars

\* the reason of the bucket of a percentage
ReasonOfPercent(percent) ==
  IF percent >= 80 THEN "Excellent match"
  ELSE IF percent >= 60 THEN "Strong match"
  ELSE IF percent >= 40 THEN "Moderate match"
  ELSE "Partial match"

\* the percentage of the required skills of a scored entry that are among
\* the skills of the resume
RequiredPercent(e) ==
  LET total == Cardinality(e.matched_skills) + Cardinality(e.missing_skills)
  IN  IF total > 0 THEN (Cardinality(e.matched_skills) * 100) \div total
      ELSE 0

\* the entry of the scenario: skills python and react against the required
\* skills python and sql
ScenarioEntries ==
  {e \in ScoredEntries :
     mt.resume_data = ScenarioResume /\ e.name = ScenarioJob.name}

\* what the scenario of C34 gives
ScenarioOutcome(e) ==
  /\ e.matched_skills = {ScenarioResume.skills[1]}
  /\ e.missing_skills = {ScenarioJob.required_skills[2]}
  /\ RequiredPercent(e) = 50
  /\ e.match_reason \in {"Moderate match", "Partial match"}
  /\ e.match_score > 10

\* C34 as stated: match_reason is the bucket of the percentage of the
\* required skills the resume matches, 80 and above excellent, 60 and above
\* strong, 40 and above moderate, anything below partial; and the scenario
\* gives matched python, missing sql, 50 percent, the moderate (or partial)
\* reason and a score above 10.
C34_AsClaimed ==
  /\ \A e \in ScoredEntries : e.match_reason = ReasonOfPercent(RequiredPercent(e))
  /\ \A e \in ScenarioEntries : ScenarioOutcome(e)

\* C34 amended: a scored job none of whose required skills is among the
\* resume skills has the reason "No skills match found"; any other scored
\* job has the bucket of the percentage of its required skills that are
\* among the resume skills (80 and above excellent, 60 and above strong, 40
\* and above moderate, below partial); the scenario gives matched python,
\* missing sql, 50 percent, the moderate reason and a score above 10.
C34_ReasonBuckets ==
  /\ \A e \in ScoredEntries :
       e.match_reason =
         IF e.matched_skills = {} THEN "No skills match found"
         ELSE ReasonOfPercent(RequiredPercent(e))
  /\ \A e \in ScenarioEntries :
       ScenarioOutcome(e) /\ e.match_reason = "Moderate match"

\* the scenario was scored, and so was a job with no required skill matched
C34_Witness ==
  /\ ScenarioEntries # {}
  /\ \E e \in ScoredEntries :
       e.matched_skills = {} /\ e.match_reason = "No skills match found"

\* the worker has finished writing the outcome of the job the serializer
\* was given, and the job is still in the map
OutcomeStored(id) ==
  /\ id \in DOMAIN jobs
  /\ \A w \in wk : w.job_id # id

\* C35: whenever serialize_job, called for the result while the worker
\* finishes the job, returns a payload with status succeeded, the payload
\* has a completed_at that is not None and the recommendations the job ends
\* with, with their count; whenever it returns status failed, the payload
\* has the error text the job ends with.
C35_AsClaimed ==
  (sz.pc = "returned" /\ sz.include_result) =>
    /\ sz.payload.status = "succeeded" =>
         /\ sz.payload.completed_at # None
         /\ "recommendations" \in DOMAIN sz.payload
         /\ sz.payload.total = Len(sz.payload.recommendations)
         /\ OutcomeStored(sz.job_id) =>
              sz.payload.recommendations = jobs[sz.job_id].recommendations
    /\ sz.payload.status = "failed" =>
         /\ "error" \in DOMAIN sz.payload
         /\ OutcomeStored(sz.job_id) =>
              sz.payload.error = jobs[sz.job_id].error

\* the owner u is at capacity on the swept map and the submission inp has
\* the payload hash of one of the owner's active jobs
FullOwnerResubmits(u, inp) ==
  LET swept == _cleanup_expired_locked(jobs, now)
  IN  /\ _active_jobs_for_user_locked(swept, u) >= MAX_ACTIVE_JOBS_PER_USER
      /\ \E id \in ActiveJobsOf(swept, Str(u)) :
           swept[id].payload_hash = _hash_payload(u, inp)

\* C36: when an owner with MAX_ACTIVE_JOBS_PER_USER active jobs submits a
\* payload with the hash of one of those jobs, enqueue answers with that
\* job and created=False, raises no capacity error, and the call adds no
\* job, hands out no id and puts nothing on the work queue.
C36_DuplicateBeforeCapacity ==
  [][ \A inp \in Inputs :
        FullOwnerResubmits("int:1", inp) =>
          LET out == enqueue_locked(jobs, now, nextId, "int:1", inp)
          IN  /\ out.result = "duplicate"
              /\ out.job_id \in ActiveJobsOf(jobs, "1")
              /\ jobs[out.job_id].payload_hash = _hash_payload("int:1", inp)
              /\ enqueue("int:1", inp) =>
                   /\ jobs' = _cleanup_expired_locked(jobs, now)
                   /\ nextId' = nextId
                   /\ putPending' = putPending /\ queue' = queue ]_qvars

\* C36 witness: the owner has MAX_ACTIVE_JOBS_PER_USER active jobs, one
\* submission has the payload of one of them and another submission is
\* rejected for capacity
C36_Witness ==
  /\ \E inp \in Inputs : FullOwnerResubmits("int:1", inp)
  /\ \E inp \in Inputs :
       enqueue_locked(jobs, now, nextId, "int:1", inp).result = "RuntimeError"

\* C37: each job is executed at most once. Its id is put on the work queue
\* once: an id is never on its way to a worker more than once, it goes onto
\* the queue only from the pending put of the enqueue that created it, and
\* no id is handed out twice. It enters status running at most once: only
\* from queued, with started_at unset, and it never goes back to queued.
\* get_recommendations is called for it at most once: a worker starts the
\* call only in the step that moves the job from queued to running.
C37_ExecutedAtMostOnce ==
  /\ [](\A id \in JobIds : Deliveries(id) <= 1)
  /\ [][ \A id \in JobIds :
           /\ Occurrences(queue', id) > Occurrences(queue, id)
                => id \in putPending /\ id \notin putPending'
           /\ (id \in putPending' /\ id \notin putPending)
                => /\ id = nextId /\ nextId' = nextId + 1
                   /\ id \notin DOMAIN jobs
           /\ (id \in DOMAIN jobs' /\ id \notin DOMAIN jobs) => id = nextId
           /\ nextId' >= nextId
           /\ (id \in DOMAIN jobs /\ id \in DOMAIN jobs')
                => /\ (jobs'[id].status = "running"
                         /\ jobs[id].status # "running")
                       => /\ jobs[id].status = "queued"
                          /\ jobs[id].started_at = None
                   /\ jobs[id].status # "queued"
                       => jobs'[id].status # "queued"
           /\ (Worker("call", id) \in wk' /\ Worker("call", id) \notin wk)
                => /\ id \in DOMAIN jobs /\ id \in DOMAIN jobs'
                   /\ jobs[id].status = "queued"
                   /\ jobs'[id].status = "running"
                   /\ Worker("process", id) \in wk
                   /\ Worker("process", id) \notin wk' ]_qvars

\* C37 witness: one job has run to its end and is on its way to no worker,
\* while another worker is inside the call for a second job
C37_Witness ==
  \E a \in DOMAIN jobs, b \in DOMAIN jobs :
    /\ a # b
    /\ jobs[a].status = "succeeded" /\ jobs[a].recommendations # <<>>
    /\ Deliveries(a) = 0
    /\ Worker("call", b) \in wk /\ jobs[b].status = "running"

\* C38: in every state of the jobs map between two sections under
\* _jobs_lock, the timestamps of a job agree with its status: queued has
\* started_at and completed_at unset; running has started_at set and
\* completed_at unset; succeeded and failed have both set, with created_at
\* <= started_at <= completed_at; cancelled has completed_at set and
\* started_at unset. Only a succeeded job has recommendations.
C38_TimestampsAgreeWithStatus ==
  \A id \in DOMAIN jobs :
    LET job == jobs[id]
    IN  /\ job.status = "queued"
             => job.started_at = None /\ job.completed_at = None
        /\ job.status = "running"
             => job.started_at # None /\ job.completed_at = None
        /\ job.status \in {"succeeded", "failed"}
             => /\ job.started_at # None /\ job.completed_at # None
                /\ job.created_at <= job.started_at
                /\ job.started_at <= job.completed_at
        /\ job.status = "cancelled"
             => job.completed_at # None /\ job.started_at = None
        /\ job.recommendations # <<>> => job.status = "succeeded"

\* C38 witness: a job that waited, ran and succeeded with recommendations
\* next to a job that was cancelled while it waited
C38_Witness ==
  \E a \in DOMAIN jobs, b \in DOMAIN jobs :
    /\ jobs[a].status = "succeeded" /\ jobs[a].recommendations # <<>>
    /\ jobs[a].created_at < jobs[a].started_at
    /\ jobs[b].status = "cancelled" /\ jobs[b].completed_at # None

\* the cache holds at most JOB_CACHE_MAX_ENTRIES entries
CacheWithinMaxEntries ==
  Cardinality(DOMAIN jc.cache) <= _JOB_CACHE_MAX_ENTRIES

\* what _load_jobs_from_cache has just returned is the list of an entry
\* that is not older than JOB_CACHE_TTL_SECONDS
LoadedEntryIsFresh ==
  (jc.call = "load" /\ jc.returned_created_at # None) =>
    jc.clock - jc.returned_created_at <= _JOB_CACHE_TTL_SECONDS

\* an entry that a call removes although it has not expired is no younger
\* than any entry the call keeps
SizeEvictionOldestFirst ==
  \A k \in DOMAIN jc.cache \ DOMAIN jc'.cache :
    jc.clock - jc.cache[k].created_at <= _JOB_CACHE_TTL_SECONDS =>
      \A j \in DOMAIN jc.cache \cap DOMAIN jc'.cache :
        jc.cache[k].created_at <= jc.cache[j].created_at

\* C39: after any sequence of _store_jobs_in_cache and
\* _load_jobs_from_cache calls the cache holds at most
\* JOB_CACHE_MAX_ENTRIES entries, _load_jobs_from_cache never returns an
\* entry older than JOB_CACHE_TTL_SECONDS, and the entries evicted for size
\* are those with the oldest created_at.
C39_AsClaimed ==
  /\ [](CacheWithinMaxEntries /\ LoadedEntryIsFresh)
  /\ [][SizeEvictionOldestFirst]_jvars

\* C31: when two calls have both saved their non-empty live listings under
\* two different keys and no save is in progress, the cache file is a
\* readable document that holds, under each of the two keys, the listings
\* that call saved.
C31_AsClaimed ==
  \A c \in CallIds, d \in CallIds :
    (/\ calls[c].pc = "done" /\ calls[c].wrote
     /\ calls[d].pc = "done" /\ calls[d].wrote
     /\ calls[c].key # calls[d].key)
      => /\ cacheFile.kind = "entries"
         /\ calls[c].key \in DOMAIN cacheFile.entries
         /\ calls[d].key \in DOMAIN cacheFile.entries
         /\ cacheFile.entries[calls[c].key].jobs = calls[c].live
         /\ cacheFile.entries[calls[d].key].jobs = calls[d].live

(***************************************************************************)
(* Properties of the item loop of the adapters                             *)
(***************************************************************************)
\* the item has a title
HasTitle(item) == item.title # <<>>

\* C32: the list an adapter returns holds, in the order of the dataset, one
\* listing for each item that has a title, with that item's title and
\* company and a link, and nothing for the items without a title.
C32_UntitledRecordDropped ==
  pipe.pc # "idle" =>
    \A name \in Platforms :
      /\ Len(pipe.scraped_data[name])
           = Len(SelectSeq(pipe.items[name], HasTitle))
      /\ \A k \in 1..Len(pipe.scraped_data[name]) :
           /\ pipe.scraped_data[name][k].title
                = SelectSeq(pipe.items[name], HasTitle)[k].title
           /\ pipe.scraped_data[name][k].company
                = SelectSeq(pipe.items[name], HasTitle)[k].company
           /\ pipe.scraped_data[name][k].link # <<>>

\* C32 witness: an adapter has returned the one listing of a dataset whose
\* first item has no title and whose second item has one.
C32_Witness ==
  /\ pipe.pc = "scraped"
  /\ \E name \in Platforms :
       /\ Len(pipe.items[name]) = 2
       /\ ~HasTitle(pipe.items[name][1])
       /\ HasTitle(pipe.items[name][2])
       /\ Len(pipe.scraped_data[name]) = 1
       /\ pipe.scraped_data[name][1].title = pipe.items[name][2].title

(***************************************************************************)
(* Properties of _prepare_search_keywords                                  *)
(***************************************************************************)
\* the first position of keywords whose normalized keyword is key
FirstSeen(keywords, key) ==
  CHOOSE k \in 1..Len(keywords) :
    /\ CandidateKey(keywords[k]) = key
    /\ \A j \in 1..(k - 1) : CandidateKey(keywords[j]) # key

\* C33: the list _prepare_search_keywords returns is not empty, has at most
\* max_items elements and no element twice, holds no generic keyword and no
\* keyword made of stop-words only, holds the normalized keywords of the
\* input in the order in which the input first has them, and is the list
\* returned for each form of the input that differs in letter case, in
\* whitespace, in spaces for hyphens and underscores, or in repetition.
C33_AsClaimed ==
  prep.pc = "prepared" =>
    /\ prep.result # <<>>
    /\ Len(prep.result) <= prep.max_items
    /\ \A i, j \in 1..Len(prep.result) :
         i # j => prep.result[i] # prep.result[j]
    /\ \A i \in 1..Len(prep.result) :
         /\ prep.result[i] \notin _GENERIC_KEYWORD_STOPWORDS
         /\ KeywordTokens(prep.result[i]) # <<>>
    /\ (\E k \in 1..Len(prep.keywords) : CandidateKey(prep.keywords[k]) # <<>>)
         => \A i, j \in 1..Len(prep.result) :
              i < j => FirstSeen(prep.keywords, prep.result[i])
                         < FirstSeen(prep.keywords, prep.result[j])
    /\ \A f \in Forms : prep.forms[f] = prep.result

TypeOK ==
  /\ started \in BOOLEAN
  /\ DOMAIN jobs \subseteq JobIds
  /\ \A id \in DOMAIN jobs : jobs[id].status \in Statuses
  /\ putPending \subseteq JobIds
  /\ nextId \in 1..(Max2(MaxJobs, Max2(MaxOwnerJobs, MaxLiveJobs)) + 1)

====
